---- MODULE Spec2Model ----
(***************************************************************************)
(* rlm-cli: the incremental full-text indexer (src/rlm_cli/indexer.py) on  *)
(* top of the directory walker (src/rlm_cli/context.py).                   *)
(*                                                                         *)
(* The state is what lives on disk (the indexed roots' files, and per      *)
(* index path the index directory, the committed documents of the search   *)
(* engine and the rlm_metadata.json file) plus the RlmIndexer objects of   *)
(* the process (their root, index path and cached engine handle).          *)
(* File contents are byte sequences; text is a sequence of code points.    *)
(***************************************************************************)
EXTENDS Integers, Sequences, FiniteSets

VARIABLES
    fs,         \* [root -> [path -> raw bytes of the file, or Absent]]
    order,      \* [root -> the order in which os.walk enumerates the paths]
    gitignore,  \* [root -> the patterns of <root>/.gitignore, None without the file]
    dirExists,  \* [index path -> whether the index directory exists]
    docs,       \* [index path -> committed documents, in insertion order]
    meta,       \* [index path -> the rlm_metadata.json file]
    inst,       \* [indexer object -> [root, index_path, handle, searcher]]
    clock,      \* the reading of the wall clock that _timestamp() returns
    since,      \* [root -> the last completed index_directory and the edits since]
    call,       \* [indexer object -> the index_directory call it is in, and where]
    tv,         \* tools_search: SEARCH_ROOT, _tv_root and whether _tv_indexer is set
    last        \* the last operation: its arguments and what it returned

vars == <<fs, order, gitignore, dirExists, docs, meta, inst, clock, since, call, tv, last>>

(***************************************************************************)
(* Bounds of the model.                                                    *)
(***************************************************************************)
\* index_directory is not started when the index already holds this many documents
MaxDocs == 3
\* the wall clock stops at this reading
MaxClock == 1

(***************************************************************************)
(* Files: paths, bytes, text.                                              *)
(***************************************************************************)
\* An optional value is a sequence: None is << >>, a value v is <<v>>.
None == << >>
Some(v) == <<v>>
\* fs[root][path] of a path with no file: no byte sequence (256 is not a byte).
Absent == <<256>>

\* The relative paths that occur under a root.
Paths == {"a.py", "b.md"}

\* The relative paths of the trees that collect_directory is run on: Paths and a
\* file of the directory a.
WalkPaths == Paths \cup {"a/c.js"}

\* The relative paths of the trees with directories the walker prunes: one named
\* in DEFAULT_EXCLUDE_DIRS, a hidden one, and a, which a .gitignore may name.
DirPaths == {"a.py", "a/c.js", "node_modules/d.py", ".hid/e.py"}

\* PurePath.name, PurePath.suffix, PurePath.stem and the directories above a file
\* (each with its name and its as_posix() + "/").
path_name(p) ==
    CASE p = "a/c.js" -> "c.js" [] p = "node_modules/d.py" -> "d.py"
      [] p = ".hid/e.py" -> "e.py" [] OTHER -> p
path_suffix(p) ==
    CASE p \in {"a.py", "/w/A/a.py", "node_modules/d.py", ".hid/e.py"} -> ".py"
      [] p \in {"b.md", "/w/A/b.md"} -> ".md"
      [] p \in {"a/c.js", "/w/A/a/c.js"} -> ".js"
      [] OTHER -> ""
path_stem(p) ==
    CASE p = "a.py" -> "a" [] p = "b.md" -> "b" [] p = "a/c.js" -> "c"
      [] p = "node_modules/d.py" -> "d" [] p = ".hid/e.py" -> "e" [] OTHER -> p
path_dirs(p) ==
    CASE p = "a/c.js" -> <<[rel |-> "a/", name |-> "a"]>>
      [] p = "node_modules/d.py" -> <<[rel |-> "node_modules/", name |-> "node_modules"]>>
      [] p = ".hid/e.py" -> <<[rel |-> ".hid/", name |-> ".hid"]>>
      [] OTHER -> << >>

\* root / relative path, the path a FILE source names.
full_path(p) ==
    CASE p = "a.py" -> "/w/A/a.py" [] p = "b.md" -> "/w/A/b.md" [] OTHER -> "/w/A/a/c.js"

\* Position of a path in the order of its as_posix() strings ("." sorts before "/",
\* "/" before the letters).
posix_rank(p) ==
    CASE p = ".gitignore" -> 0 [] p = ".hid/e.py" -> 1
      [] p = "/w/A/a.py" -> 2 [] p = "/w/A/a/c.js" -> 3 [] p = "/w/A/b.md" -> 4
      [] p = "a.py" -> 5 [] p = "a/c.js" -> 6 [] p = "b.md" -> 7
      [] p = "literal" -> 8 [] p = "node_modules/d.py" -> 9 [] p = "stdin" -> 10
      [] OTHER -> 11

\* File contents, as bytes: "h", "hi", "h\xff", "h\xfe" and a NUL byte.
TextH == <<104>>
TextHi == <<104, 105>>
BadFF == <<104, 255>>
BadFE == <<104, 254>>
Nul == <<0>>

\* A name that os.walk lists and stat() fails on (a dangling link), and a file
\* that stat() sizes and open() fails on: 258 followed by its bytes.
StatFails == <<257>>
Unreadable(bytes) == <<258>> \o bytes
stat_fails(f) == f = StatFails
open_fails(f) == f # << >> /\ f[1] = 258
\* stat().st_size
st_size(f) == IF open_fails(f) THEN Len(f) - 1 ELSE Len(f)

\* Path.read_text(encoding="utf-8", errors="replace") on bytes of {0..127, 254,
\* 255}: the bytes 0xFE and 0xFF never occur in UTF-8, each becomes U+FFFD, and
\* text mode reads "\r\n" and a lone "\r" as one "\n".
RECURSIVE decode_replace(_)
decode_replace(bytes) ==
    IF bytes = << >> THEN << >>
    ELSE IF bytes[1] = 13
    THEN <<10>> \o decode_replace(IF Len(bytes) > 1 /\ bytes[2] = 10
                                  THEN Tail(Tail(bytes)) ELSE Tail(bytes))
    ELSE <<IF bytes[1] < 128 THEN bytes[1] ELSE 65533>> \o decode_replace(Tail(bytes))

\* hashlib.sha256(content.encode("utf-8")).hexdigest(): a digest per text, taken
\* to be collision free.
sha256_hex(text) == [sha256_of |-> text]

\* len(text.encode("utf-8")) of the code points that occur (ASCII and U+FFFD).
RECURSIVE utf8_len(_)
utf8_len(text) ==
    IF text = << >> THEN 0
    ELSE (IF Head(text) < 128 THEN 1 ELSE IF Head(text) < 2048 THEN 2 ELSE 3)
         + utf8_len(Tail(text))

Min(a, b) == IF a < b THEN a ELSE b

\* _is_binary looks at the first sample_size bytes.
sample_size == 8192

RECURSIVE count_nontext(_)
count_nontext(chunk) ==
    IF chunk = << >> THEN 0
    ELSE (IF Head(chunk) < 9 \/ (13 < Head(chunk) /\ Head(chunk) < 32) THEN 1 ELSE 0)
         + count_nontext(Tail(chunk))

is_binary(bytes) ==
    LET chunk == SubSeq(bytes, 1, Min(Len(bytes), sample_size))
    IN  IF open_fails(bytes) THEN FALSE
        ELSE IF chunk = << >> THEN FALSE
        ELSE IF \E k \in 1..Len(chunk) : chunk[k] = 0 THEN TRUE
        ELSE 10 * count_nontext(chunk) > 3 * Len(chunk)

(***************************************************************************)
(* WalkOptions and the filters of the walk.                                *)
(***************************************************************************)
DEFAULT_EXCLUDE_DIRS ==
    {".git", ".hg", ".svn", "__pycache__", "node_modules", ".venv", "venv", "dist", "build"}
DEFAULT_EXCLUDE_FILES == {".DS_Store"}

WalkOptionsDefault ==
    [extensions |-> None, include_globs |-> {}, exclude_globs |-> {},
     respect_gitignore |-> TRUE, include_hidden |-> FALSE,
     max_file_bytes |-> None, max_total_bytes |-> None,
     binary_policy |-> "skip", exclude_lockfiles |-> FALSE]

\* str.lower() and the leading dot of an extension.
normalize_ext(e) ==
    CASE e = "py" -> ".py" [] e = ".PY" -> ".py" [] e = "md" -> ".md" [] e = "js" -> ".js"
      [] OTHER -> e

normalize_extensions(extensions) ==
    IF extensions = None \/ extensions[1] = {} THEN None
    ELSE Some({normalize_ext(e) : e \in extensions[1]})

build_spec(patterns) == IF patterns = {} THEN None ELSE Some(patterns)

\* The file <root>/.gitignore: None without it, Some(patterns) with its lines, or
\* one that cannot be read (OSError) or decoded (UnicodeDecodeError).
GitignoreUnreadable == <<{}, {"OSError"}>>
GitignoreUndecodable == <<{}, {"UnicodeDecodeError"}>>

\* _load_gitignore: only OSError is caught, read_text() decodes strictly.
load_gitignore_raises(g) == g = GitignoreUndecodable
load_gitignore(g) == IF Len(g) = 2 THEN None ELSE g

\* gitwildmatch of one pattern against a relative path (directories end in "/").
glob_match(pattern, p) ==
    CASE pattern = "*.md" -> (p = "b.md")
      [] pattern = "*.py" -> (p \in {"a.py", "node_modules/d.py", ".hid/e.py"})
      [] pattern = "a.py" -> (p = "a.py")
      [] pattern = "*.js" -> (p = "a/c.js")
      [] pattern = "a/" -> (p \in {"a/", "a/c.js"})
      [] OTHER -> FALSE

\* PathSpec.match_file; an empty PathSpec is falsy in the callers' tests.
spec_applies(spec) == spec # None /\ spec[1] # {}
match_file(spec, p) == \E pattern \in spec[1] : glob_match(pattern, p)

starts_with_dot(name) ==
    name \in {".git", ".hg", ".svn", ".venv", ".DS_Store", ".gitignore", ".hid"}
ends_with_lock(name) == FALSE

should_skip_dir(rel, name, include_hidden, gitignore_spec) ==
    IF name \in DEFAULT_EXCLUDE_DIRS THEN TRUE
    ELSE IF ~include_hidden /\ starts_with_dot(name) THEN TRUE
    ELSE IF spec_applies(gitignore_spec) /\ match_file(gitignore_spec, rel) THEN TRUE
    ELSE FALSE

\* A file filter that leaves out the test against .gitignore.
should_skip_file_without_gitignore(p, name, f) ==
    IF name \in DEFAULT_EXCLUDE_FILES THEN TRUE
    ELSE IF f.exclude_lockfiles /\ ends_with_lock(name) THEN TRUE
    ELSE IF ~f.include_hidden /\ starts_with_dot(name) THEN TRUE
    ELSE IF f.extensions # None /\ path_suffix(p) \notin f.extensions[1] THEN TRUE
    ELSE IF spec_applies(f.include_spec) /\ ~match_file(f.include_spec, p) THEN TRUE
    ELSE IF spec_applies(f.exclude_spec) /\ match_file(f.exclude_spec, p) THEN TRUE
    ELSE FALSE

\* f holds the keyword arguments: include_hidden, extensions, include_spec,
\* exclude_spec, gitignore_spec, exclude_lockfiles.
should_skip_file(p, name, f) ==
    IF name \in DEFAULT_EXCLUDE_FILES THEN TRUE
    ELSE IF f.exclude_lockfiles /\ ends_with_lock(name) THEN TRUE
    ELSE IF ~f.include_hidden /\ starts_with_dot(name) THEN TRUE
    ELSE IF f.extensions # None /\ path_suffix(p) \notin f.extensions[1] THEN TRUE
    ELSE IF spec_applies(f.include_spec) /\ ~match_file(f.include_spec, p) THEN TRUE
    ELSE IF spec_applies(f.exclude_spec) /\ match_file(f.exclude_spec, p) THEN TRUE
    ELSE IF spec_applies(f.gitignore_spec) /\ match_file(f.gitignore_spec, p) THEN TRUE
    ELSE FALSE

(***************************************************************************)
(* collect_directory.                                                      *)
(***************************************************************************)
\* raised: the exception that leaves collect_directory, "" when it returns.
WalkResultEmpty ==
    [files |-> << >>, warnings |-> << >>, truncated |-> FALSE, total_bytes |-> 0,
     stop |-> FALSE, raised |-> ""]

\* A walk that descends into every directory.
under_skipped_dir_never(p, f) == FALSE

\* Whether os.walk never reaches p: one of the directories above it was pruned.
under_skipped_dir(p, f) ==
    \E k \in 1..Len(path_dirs(p)) :
        should_skip_dir(path_dirs(p)[k].rel, path_dirs(p)[k].name, f.include_hidden, f.gitignore_spec)

\* A loop body that passes over the file that overflows the budget and goes on.
walk_file_going_on(tree, opts, f, acc, p) ==
    IF acc.stop \/ acc.raised # "" THEN acc
    ELSE IF tree[p] = Absent \/ under_skipped_dir(p, f) THEN acc
    ELSE IF should_skip_file(p, path_name(p), f) THEN acc
    ELSE IF stat_fails(tree[p])
    THEN [acc EXCEPT !.warnings = Append(@, [kind |-> "Failed to stat", path |-> p])]
    ELSE LET size == st_size(tree[p]) IN
        IF opts.max_file_bytes # None /\ size > opts.max_file_bytes[1]
        THEN [acc EXCEPT !.warnings = Append(@, [kind |-> "Skipping (size)", path |-> p])]
        ELSE IF opts.max_total_bytes # None /\ acc.total_bytes + size > opts.max_total_bytes[1]
        THEN [acc EXCEPT !.warnings = Append(@, [kind |-> "Total byte limit reached", path |-> ""]),
                         !.truncated = TRUE]
        ELSE IF is_binary(tree[p])
        THEN IF opts.binary_policy = "error"
             THEN [acc EXCEPT !.raised = "InputError"]
             ELSE [acc EXCEPT !.warnings = Append(@, [kind |-> "Skipping binary file", path |-> p])]
        ELSE IF open_fails(tree[p])
        THEN [acc EXCEPT !.warnings = Append(@, [kind |-> "Failed to read", path |-> p])]
        ELSE [acc EXCEPT
                !.files = Append(@, [path |-> p, size |-> size, content |-> decode_replace(tree[p])]),
                !.total_bytes = @ + size]

\* The body of the loop over filenames for the file p, tree[p] being its bytes.
walk_file(tree, opts, f, acc, p) ==
    IF acc.stop \/ acc.raised # "" THEN acc
    ELSE IF tree[p] = Absent \/ under_skipped_dir(p, f) THEN acc
    ELSE IF should_skip_file(p, path_name(p), f) THEN acc
    ELSE IF stat_fails(tree[p])
    THEN [acc EXCEPT !.warnings = Append(@, [kind |-> "Failed to stat", path |-> p])]
    ELSE LET size == st_size(tree[p]) IN
        IF opts.max_file_bytes # None /\ size > opts.max_file_bytes[1]
        THEN [acc EXCEPT !.warnings = Append(@, [kind |-> "Skipping (size)", path |-> p])]
        ELSE IF opts.max_total_bytes # None /\ acc.total_bytes + size > opts.max_total_bytes[1]
        THEN [acc EXCEPT !.warnings = Append(@, [kind |-> "Total byte limit reached", path |-> ""]),
                         !.truncated = TRUE, !.stop = TRUE]
        ELSE IF is_binary(tree[p])
        THEN IF opts.binary_policy = "error"
             THEN [acc EXCEPT !.raised = "InputError"]
             ELSE [acc EXCEPT !.warnings = Append(@, [kind |-> "Skipping binary file", path |-> p])]
        ELSE IF open_fails(tree[p])
        THEN [acc EXCEPT !.warnings = Append(@, [kind |-> "Failed to read", path |-> p])]
        ELSE [acc EXCEPT
                !.files = Append(@, [path |-> p, size |-> size, content |-> decode_replace(tree[p])]),
                !.total_bytes = @ + size]

RECURSIVE walk_files(_, _, _, _, _)
walk_files(tree, opts, f, acc, seq) ==
    IF seq = << >> THEN acc
    ELSE walk_files(tree, opts, f, walk_file(tree, opts, f, acc, Head(seq)), Tail(seq))

\* list.sort(key=as_posix): insertion into a sorted list, equal keys kept in order.
RECURSIVE insert_sorted(_, _)
insert_sorted(sorted, e) ==
    IF sorted = << >> THEN <<e>>
    ELSE IF posix_rank(e.path) < posix_rank(Head(sorted).path) THEN <<e>> \o sorted
    ELSE <<Head(sorted)>> \o insert_sorted(Tail(sorted), e)

\* A walk that returns the files in the order it met them.
sort_skipped(files) == files

RECURSIVE sort_by_path(_)
sort_by_path(files) ==
    IF files = << >> THEN << >>
    ELSE insert_sorted(sort_by_path(SubSeq(files, 1, Len(files) - 1)), files[Len(files)])

\* The bytes of the file <root>/.gitignore: its lines, bytes that are no UTF-8,
\* or a file that open() fails on.
gitignore_file(gi) ==
    CASE gi = None -> Absent
      [] gi = GitignoreUnreadable -> Unreadable(<<10>>)
      [] gi = GitignoreUndecodable -> <<255, 10>>
      [] gi = Some({"*.md"}) -> <<42, 46, 109, 100, 10>>
      [] gi = Some({"a/"}) -> <<97, 47, 10>>
      [] OTHER -> <<10>>

\* What os.walk lists under a root: the files of the tree and, like any other
\* file, .gitignore; an order that does not place .gitignore lists it first.
listed(tree, ord, gi) ==
    [tree |-> [p \in DOMAIN tree \cup {".gitignore"} |->
                  IF p = ".gitignore" THEN gitignore_file(gi) ELSE tree[p]],
     ord |-> IF \E k \in 1..Len(ord) : ord[k] = ".gitignore" THEN ord
             ELSE <<".gitignore">> \o ord]

\* The filters collect_directory derives from its options (lines 71-74).
walk_filters(gi, opts) ==
    [include_hidden |-> opts.include_hidden,
     extensions |-> normalize_extensions(opts.extensions),
     include_spec |-> build_spec(opts.include_globs),
     exclude_spec |-> build_spec(opts.exclude_globs),
     gitignore_spec |-> IF opts.respect_gitignore THEN load_gitignore(gi) ELSE None,
     exclude_lockfiles |-> opts.exclude_lockfiles]

\* The sizes of the files of a list, added up.
RECURSIVE sum_sizes(_)
sum_sizes(files) == IF files = << >> THEN 0 ELSE Head(files).size + sum_sizes(Tail(files))

\* The sizes of every file of the tree that stat() sizes, added up.
RECURSIVE sum_listed(_, _)
sum_listed(tree, seq) ==
    IF seq = << >> THEN 0
    ELSE (IF tree[Head(seq)] = Absent \/ stat_fails(tree[Head(seq)]) THEN 0
          ELSE st_size(tree[Head(seq)])) + sum_listed(tree, Tail(seq))

\* A walk that never looks at max_total_bytes.
collect_directory_unbudgeted(tree, ord, gi, opts) ==
    LET free == [opts EXCEPT !.max_total_bytes = None]
        ls == listed(tree, ord, gi)
        walked == walk_files(ls.tree, free, walk_filters(gi, free), WalkResultEmpty, ls.ord)
    IN  IF opts.respect_gitignore /\ load_gitignore_raises(gi)
        THEN [WalkResultEmpty EXCEPT !.raised = "UnicodeDecodeError"]
        ELSE [walked EXCEPT !.files = sort_by_path(@)]

\* A walk that adds a file to total_bytes as soon as it has its size.
collect_directory_counting_early(tree, ord, gi, opts) ==
    LET ls == listed(tree, ord, gi)
        walked == walk_files(ls.tree, opts, walk_filters(gi, opts), WalkResultEmpty, ls.ord)
    IN  IF opts.respect_gitignore /\ load_gitignore_raises(gi)
        THEN [WalkResultEmpty EXCEPT !.raised = "UnicodeDecodeError"]
        ELSE [walked EXCEPT !.files = sort_by_path(@),
                            !.total_bytes = sum_listed(ls.tree, ls.ord)]

\* collect_directory(root, options): tree, ord and gi are the root's files, their
\* enumeration order and its .gitignore. raised: InputError "Binary file detected.",
\* or the UnicodeDecodeError of _load_gitignore.
collect_directory(tree, ord, gi, opts) ==
    LET f == walk_filters(gi, opts)
        ls == listed(tree, ord, gi)
        walked == walk_files(ls.tree, opts, f, WalkResultEmpty, ls.ord)
    IN  IF opts.respect_gitignore /\ load_gitignore_raises(gi)
        THEN [WalkResultEmpty EXCEPT !.raised = "UnicodeDecodeError"]
        ELSE [walked EXCEPT !.files = sort_by_path(@)]

(***************************************************************************)
(* build_context_from_sources.                                             *)
(***************************************************************************)
\* InputSource: a file of the root (path), the root itself, literal text, stdin.
FileSource(p) == [kind |-> "file", path |-> p, text |-> << >>]
DirSource == [kind |-> "dir", path |-> "", text |-> << >>]
LiteralSource(text) == [kind |-> "literal", path |-> "", text |-> text]
StdinSource == [kind |-> "stdin", path |-> "", text |-> << >>]

\* _load_file_entry: the entry (None when the file is passed over), or InputError.
load_file_entry(tree, p, opts) ==
    LET file == tree[p] IN
    IF file = Absent \/ stat_fails(file) THEN [raised |-> "InputError", entry |-> None]
    ELSE IF opts.max_file_bytes # None /\ st_size(file) > opts.max_file_bytes[1]
    THEN [raised |-> "", entry |-> None]
    ELSE IF is_binary(file)
    THEN [raised |-> IF opts.binary_policy = "error" THEN "InputError" ELSE "", entry |-> None]
    ELSE IF open_fails(file) THEN [raised |-> "InputError", entry |-> None]
    ELSE [raised |-> "",
          entry |-> Some([path |-> full_path(p), size |-> st_size(file),
                          content |-> decode_replace(file)])]

\* _language_from_path of context.py
context_language_from_path(p) ==
    CASE path_suffix(p) = "" -> "text"
      [] path_suffix(p) = ".py" -> "python"
      [] path_suffix(p) = ".md" -> "markdown"
      [] path_suffix(p) = ".js" -> "javascript"
      [] OTHER -> "other"

\* build_context_payload: the documents of the files, sorted by path; id k
\* stands for "doc-%04d" % k.
build_context_payload(files) ==
    LET sorted_files == sort_by_path(files) IN
    [k \in 1..Len(sorted_files) |->
        [id |-> k, path |-> sorted_files[k].path,
         language |-> context_language_from_path(sorted_files[k].path),
         bytes |-> utf8_len(sorted_files[k].content),
         sha256 |-> sha256_hex(sorted_files[k].content),
         content |-> sorted_files[k].content]]

\* One turn of the loop over sources; acc: combined, literal_docs, raised.
add_source(tree, ord, gi, opts, stdin, acc, source) ==
    IF acc.raised # "" THEN acc
    ELSE IF source.kind = "stdin"
    THEN [acc EXCEPT !.literal_docs =
             Append(@, [path |-> "stdin", size |-> utf8_len(stdin), content |-> stdin])]
    ELSE IF source.kind = "literal"
    THEN [acc EXCEPT !.literal_docs =
             Append(@, [path |-> "literal", size |-> utf8_len(source.text),
                        content |-> source.text])]
    ELSE IF source.kind = "file"
    THEN LET loaded == load_file_entry(tree, source.path, opts) IN
         IF loaded.raised # "" THEN [acc EXCEPT !.raised = loaded.raised]
         ELSE IF loaded.entry = None THEN acc
         ELSE [acc EXCEPT !.literal_docs = Append(@, loaded.entry[1])]
    ELSE LET result == collect_directory(tree, ord, gi, opts) IN
         IF result.raised # "" THEN [acc EXCEPT !.raised = result.raised]
         ELSE [acc EXCEPT !.combined.files = @ \o result.files,
                          !.combined.warnings = @ \o result.warnings,
                          !.combined.truncated = @ \/ result.truncated,
                          !.combined.total_bytes = @ + result.total_bytes]

RECURSIVE add_sources(_, _, _, _, _, _, _)
add_sources(tree, ord, gi, opts, stdin, acc, sources) ==
    IF sources = << >> THEN acc
    ELSE add_sources(tree, ord, gi, opts, stdin,
                     add_source(tree, ord, gi, opts, stdin, acc, Head(sources)), Tail(sources))

\* build_context_from_sources: the combined WalkResult and the payload's documents.
build_context_from_sources(sources, tree, ord, gi, opts, stdin) ==
    LET acc == add_sources(tree, ord, gi, opts, stdin,
                           [combined |-> WalkResultEmpty, literal_docs |-> << >>, raised |-> ""],
                           sources)
        files == sort_by_path(acc.combined.files \o acc.literal_docs)
    IN  [raised |-> acc.raised,
         combined |-> [acc.combined EXCEPT !.files = files],
         documents |-> build_context_payload(files)]

(***************************************************************************)
(* Roots, index paths and the RlmIndexer objects.                          *)
(***************************************************************************)
\* The roots as the callers spell them, and Path.resolve() of each.
RootArgs == {"/w/A", "/w/A/.", "/w/B"}
\* Path.resolve(); "." names the working directory of the process, /w/A.
resolve(arg) == IF arg \in {"/w/A/.", "."} THEN "/w/A" ELSE arg
Roots == {resolve(a) : a \in RootArgs}

\* hashlib.sha256(s.encode()).hexdigest()[:16], one digest prefix per string.
sha256_hex16(s) ==
    CASE s = "/w/A" -> "0d8752a88fb5d79e"
      [] s = "/w/A/." -> "e993d43877d5aee7"
      [] s = "/w/B" -> "3a70caa168e40f82"
      [] OTHER -> "ffffffffffffffff"

\* An index path that does not depend on the root.
get_index_path_shared(root) == sha256_hex16("/w/A")

\* config.index_dir / root_hash; every indexer here has the same IndexConfig.
get_index_path(root) == sha256_hex16(resolve(root))

IndexPaths == {sha256_hex16(a) : a \in RootArgs}
Insts == {"x", "y"}

\* RlmIndexer.__init__. handle: self._index is not None; searcher: the committed
\* documents the reader of that handle serves (those of its last load).
new_indexer(arg) ==
    [root |-> resolve(arg), index_path |-> get_index_path(resolve(arg)), handle |-> FALSE,
     searcher |-> << >>]

(***************************************************************************)
(* The metadata file.                                                      *)
(***************************************************************************)
NoFiles == [p \in {} |-> 0]
MetaFile(kind) == [kind |-> kind, root |-> "", files |-> NoFiles]
\* No file; text that is no JSON; bytes that are no UTF-8; a file whose read fails
\* with an OSError and that can be written ("unreadable", mode 0200) or not
\* ("noaccess", mode 0000); JSON that is no object (a list).
MetaAbsent == MetaFile("absent")
MetaKindsBad == {"absent", "garbled", "undecodable", "unreadable", "noaccess", "list"}
MetaJson(root, files) == [kind |-> "json", root |-> root, files |-> files]

\* _load_metadata: the value it returns (shape "dict" or "list"), or the
\* exception that leaves it. read_text raises UnicodeDecodeError, which is no
\* JSONDecodeError and no OSError.
load_metadata(m, root) ==
    CASE m.kind = "json" -> [raised |-> "", shape |-> "dict", root |-> m.root, files |-> m.files]
      [] m.kind = "list" -> [raised |-> "", shape |-> "list", root |-> "", files |-> NoFiles]
      [] m.kind = "undecodable" ->
            [raised |-> "UnicodeDecodeError", shape |-> "", root |-> "", files |-> NoFiles]
      [] OTHER -> [raised |-> "", shape |-> "dict", root |-> root, files |-> NoFiles]

\* A save that reads the file again and keeps the entries it finds there next to
\* those of the call.
save_metadata_merging(file, metadata) ==
    CASE file.kind = "noaccess" -> [file |-> file, raised |-> "PermissionError"]
      [] file.kind = "unreadable" -> [file |-> file, raised |-> ""]
      [] metadata.shape = "list" -> [file |-> MetaFile("list"), raised |-> ""]
      [] OTHER ->
            LET found == IF file.kind = "json" THEN file.files ELSE NoFiles
            IN  [file |-> MetaJson(metadata.root,
                                   [q \in DOMAIN found \cup DOMAIN metadata.files |->
                                       IF q \in DOMAIN metadata.files THEN metadata.files[q]
                                       ELSE found[q]]),
                 raised |-> ""]

\* _save_metadata: write_text puts json.dumps(metadata) in the file and keeps the
\* mode of a file that exists, so a file whose read failed still cannot be read;
\* on a file that cannot be written it raises and the file is left as it was.
save_metadata(file, metadata) ==
    CASE file.kind = "noaccess" -> [file |-> file, raised |-> "PermissionError"]
      [] file.kind = "unreadable" -> [file |-> file, raised |-> ""]
      [] metadata.shape = "list" -> [file |-> MetaFile("list"), raised |-> ""]
      [] OTHER -> [file |-> MetaJson(metadata.root, metadata.files), raised |-> ""]

(***************************************************************************)
(* The index directory and the engine's committed documents.               *)
(***************************************************************************)
\* The store is what is on disk under config.index_dir.
Store == [dir |-> dirExists, docs |-> docs, meta |-> meta]

\* A clear that only drops the in-memory handles.
clear_handles_only(st, ip) == st

\* A clear that empties the engine's files and leaves the directory and metadata.
clear_engine_files_only(st, ip) == [st EXCEPT !.docs[ip] = << >>]

\* shutil.rmtree(ip), when the directory exists (RlmIndexer.clear, lines 265-266).
clear(st, ip) ==
    IF st.dir[ip]
    THEN [dir |-> [st.dir EXCEPT ![ip] = FALSE],
          docs |-> [st.docs EXCEPT ![ip] = << >>],
          meta |-> [st.meta EXCEPT ![ip] = MetaAbsent]]
    ELSE st

\* _ensure_index(create=True) with no cached handle: mkdir and open the index.
ensure_index_create(st, ip) == [st EXCEPT !.dir[ip] = TRUE]

\* tantivy.Index(schema, path): the reader of a new handle loads what is committed.
open_index(committed) == committed

\* shutil.rmtree(ip) takes the files from under the readers of every handle on ip.
\* Such a reader is taken to serve nothing: the code reloads before it reads one.
drop_readers(objects, ip) ==
    [j \in DOMAIN objects |->
        IF objects[j].index_path = ip THEN [objects[j] EXCEPT !.searcher = << >>] ELSE objects[j]]

\* A reload that leaves the reader on the documents of its last load.
reload_skipped(view, committed) == view

\* index.reload(): the reader moves to what is committed now. Between reloads the
\* reader is taken to stay where it is.
reload(view, committed) == committed

\* A commit that loses the documents given to the writer.
commit_lost(committed, pending) == committed

\* A commit that first deletes the committed documents of the paths it adds.
commit_replacing(committed, pending) ==
    SelectSeq(committed, LAMBDA d : \A k \in 1..Len(pending) : pending[k].path # d.path) \o pending

\* writer.commit(): the added documents join the committed ones.
commit(committed, pending) == committed \o pending

\* path.suffix.lower().lstrip(".")
path_ext(p) ==
    CASE p \in {"a.py", "node_modules/d.py", ".hid/e.py"} -> "py"
      [] p = "b.md" -> "md" [] p = "a/c.js" -> "js" [] OTHER -> ""

\* _language_from_path of indexer.py
language_from_path(p) ==
    CASE path_ext(p) = "" -> "text"
      [] path_ext(p) = "py" -> "python"
      [] path_ext(p) = "md" -> "markdown"
      [] path_ext(p) = "js" -> "javascript"
      [] OTHER -> path_ext(p)

\* A loop that adds the document and forgets to record it in the metadata.
index_file_unrecorded(force, acc, e, now) ==
    LET sha == sha256_hex(e.content) IN
    IF ~force /\ e.path \in DOMAIN acc.metadata.files /\ acc.metadata.files[e.path].sha256 = sha
    THEN [acc EXCEPT !.skipped_count = @ + 1]
    ELSE [acc EXCEPT
            !.pending = Append(@, [path |-> e.path, path_stem |-> path_stem(e.path),
                                   content |-> e.content,
                                   language |-> language_from_path(e.path),
                                   doc_id |-> acc.indexed_count + 1,
                                   sha256 |-> sha, bytes_size |-> e.size]),
            !.indexed_count = @ + 1]

\* A loop that skips every path the metadata knows, whatever its hash.
index_file_by_path(force, acc, e, now) ==
    LET sha == sha256_hex(e.content) IN
    IF ~force /\ e.path \in DOMAIN acc.metadata.files
    THEN [acc EXCEPT !.skipped_count = @ + 1]
    ELSE [acc EXCEPT
            !.pending = Append(@, [path |-> e.path, path_stem |-> path_stem(e.path),
                                   content |-> e.content,
                                   language |-> language_from_path(e.path),
                                   doc_id |-> acc.indexed_count + 1,
                                   sha256 |-> sha, bytes_size |-> e.size]),
            !.indexed_count = @ + 1,
            !.metadata.files = [q \in DOMAIN @ \cup {e.path} |->
                                   IF q = e.path THEN [sha256 |-> sha, indexed_at |-> now]
                                   ELSE @[q]]]

\* A loop that numbers every document of a call doc-0001.
index_file_same_id(force, acc, e, now) ==
    LET sha == sha256_hex(e.content) IN
    IF ~force /\ e.path \in DOMAIN acc.metadata.files /\ acc.metadata.files[e.path].sha256 = sha
    THEN [acc EXCEPT !.skipped_count = @ + 1]
    ELSE [acc EXCEPT
            !.pending = Append(@, [path |-> e.path, path_stem |-> path_stem(e.path),
                                   content |-> e.content,
                                   language |-> language_from_path(e.path),
                                   doc_id |-> 1,
                                   sha256 |-> sha, bytes_size |-> e.size]),
            !.indexed_count = @ + 1,
            !.metadata.files = [q \in DOMAIN @ \cup {e.path} |->
                                   IF q = e.path THEN [sha256 |-> sha, indexed_at |-> now]
                                   ELSE @[q]]]

\* A loop that passes over an unchanged file without counting it.
index_file_uncounted(force, acc, e, now) ==
    LET sha == sha256_hex(e.content) IN
    IF ~force /\ e.path \in DOMAIN acc.metadata.files /\ acc.metadata.files[e.path].sha256 = sha
    THEN acc
    ELSE [acc EXCEPT
            !.pending = Append(@, [path |-> e.path, path_stem |-> path_stem(e.path),
                                   content |-> e.content,
                                   language |-> language_from_path(e.path),
                                   doc_id |-> acc.indexed_count + 1,
                                   sha256 |-> sha, bytes_size |-> e.size]),
            !.indexed_count = @ + 1,
            !.metadata.files = [q \in DOMAIN @ \cup {e.path} |->
                                   IF q = e.path THEN [sha256 |-> sha, indexed_at |-> now]
                                   ELSE @[q]]]

\* A loop that stamps the entry of a skipped file with the current time.
index_file_restamping(force, acc, e, now) ==
    LET sha == sha256_hex(e.content) IN
    IF ~force /\ e.path \in DOMAIN acc.metadata.files /\ acc.metadata.files[e.path].sha256 = sha
    THEN [acc EXCEPT !.skipped_count = @ + 1,
                     !.metadata.files[e.path] = [sha256 |-> sha, indexed_at |-> now]]
    ELSE [acc EXCEPT
            !.pending = Append(@, [path |-> e.path, path_stem |-> path_stem(e.path),
                                   content |-> e.content,
                                   language |-> language_from_path(e.path),
                                   doc_id |-> acc.indexed_count + 1,
                                   sha256 |-> sha, bytes_size |-> e.size]),
            !.indexed_count = @ + 1,
            !.metadata.files = [q \in DOMAIN @ \cup {e.path} |->
                                   IF q = e.path THEN [sha256 |-> sha, indexed_at |-> now]
                                   ELSE @[q]]]

\* One turn of the loop of index_directory over result.files.
index_file(force, acc, e, now) ==
    LET sha == sha256_hex(e.content) IN
    IF acc.raised # "" THEN acc
    ELSE IF ~force /\ acc.metadata.shape = "list" THEN [acc EXCEPT !.raised = "AttributeError"]
    ELSE IF ~force /\ e.path \in DOMAIN acc.metadata.files
                  /\ acc.metadata.files[e.path].sha256 = sha
    THEN [acc EXCEPT !.skipped_count = @ + 1]
    ELSE IF acc.metadata.shape = "list" THEN [acc EXCEPT !.raised = "TypeError"]
    ELSE [acc EXCEPT
            !.pending = Append(@, [path |-> e.path, path_stem |-> path_stem(e.path),
                                   content |-> e.content,
                                   language |-> language_from_path(e.path),
                                   doc_id |-> acc.indexed_count + 1,
                                   sha256 |-> sha, bytes_size |-> e.size]),
            !.indexed_count = @ + 1,
            !.metadata.files = [q \in DOMAIN @ \cup {e.path} |->
                                   IF q = e.path THEN [sha256 |-> sha, indexed_at |-> now]
                                   ELSE @[q]]]

\* _timestamp() is called in the turn of each file that is indexed: the readings
\* of the clock at the n turns of a call that starts at now and ends by upto, time
\* never going back.
Readings(now, n, upto) ==
    {times \in [1..n -> now..upto] : \A k \in 1..(n - 1) : times[k] <= times[k + 1]}

\* The loop of index_directory over result.files; times[k] is the clock at the
\* turn of the k-th file.
RECURSIVE index_files(_, _, _, _)
index_files(force, acc, files, times) ==
    IF files = << >> THEN acc
    ELSE index_files(force, index_file(force, acc, Head(files), Head(times)),
                     Tail(files), Tail(times))

(***************************************************************************)
(* History: what the claims read.                                          *)
(***************************************************************************)
NoEdit == [n |-> 0, path |-> "", old |-> Absent]
NoSince == [valid |-> FALSE, opts |-> WalkOptionsDefault, walked |-> {}, edit |-> NoEdit]

\* How an index_directory call relates to the last completed non-forced call on
\* its root: "repeat" (same options, no file touched since), "modified" (same
\* options, one file of that walk rewritten with other bytes since), or "".
NoRel == [kind |-> "", path |-> "", old |-> Absent, walked |-> {}]
relation(s, opts) ==
    IF ~s.valid \/ s.opts # opts THEN NoRel
    ELSE IF s.edit.n = 0 THEN [NoRel EXCEPT !.kind = "repeat", !.walked = s.walked]
    ELSE IF s.edit.n = 1 /\ s.edit.path \in s.walked
    THEN [kind |-> "modified", path |-> s.edit.path, old |-> s.edit.old, walked |-> s.walked]
    ELSE NoRel

NoLast ==
    [op |-> "none", inst |-> "", root |-> "", index_path |-> "", force |-> FALSE,
     opts |-> WalkOptionsDefault, outcome |-> "", indexed_count |-> 0, skipped_count |-> 0,
     walked |-> << >>, total_bytes |-> 0, preDir |-> FALSE, preMeta |-> "", rel |-> NoRel,
     results |-> << >>, query |-> << >>, limit |-> 0, language |-> None, hits |-> << >>,
     stale |-> FALSE, walk |-> WalkResultEmpty, sources |-> << >>, documents |-> << >>,
     log |-> << >>, filtered |-> << >>, requested |-> "", fresh |-> FALSE, held |-> "",
     overlap |-> ""]

\* tools_search at import: SEARCH_ROOT = None, _tv_indexer = None, _tv_root = None.
\* While cached, the object _tv_indexer refers to is inst[TvSlot].
TvSlot == "x"
NoTv == [cached |-> FALSE, root |-> "", search_root |-> None]

\* The accumulators of the loop of index_directory before its first turn.
new_run(loaded) ==
    [metadata |-> loaded, pending |-> << >>, indexed_count |-> 0, skipped_count |-> 0,
     raised |-> ""]

\* An index_directory call in progress. pc: "idle" (no call), "loop" (lines
\* 160-190, files being the entries still to visit), "committed" (line 192 done).
\* base is what the engine had committed when the writer was taken; log lists what
\* the call did to the engine and the metadata file: "add", "commit", "save";
\* overlap tells what happened when a call of another indexer object on the same
\* index path met this one: "granted" (both had a writer at some point),
\* "refused" (the other call was refused its writer), "" (no call met this one).
NoCall ==
    [pc |-> "idle", force |-> FALSE, opts |-> WalkOptionsDefault, files |-> << >>,
     total_bytes |-> 0, acc |-> new_run(load_metadata(MetaAbsent, "")), base |-> << >>,
     log |-> << >>, overlap |-> ""]

RootsAt(ip) == {r \in Roots : get_index_path(r) = ip}

seq_range(s) == {s[k] : k \in 1..Len(s)}
paths_of(files) == [k \in 1..Len(files) |-> files[k].path]

(***************************************************************************)
(* The operations of RlmIndexer.                                           *)
(***************************************************************************)
Init ==
    /\ fs = [r \in Roots |-> [p \in Paths |-> Absent]]
    /\ order = [r \in Roots |-> <<"a.py", "b.md">>]
    /\ gitignore = [r \in Roots |-> None]
    /\ dirExists = [ip \in IndexPaths |-> FALSE]
    /\ docs = [ip \in IndexPaths |-> << >>]
    /\ meta = [ip \in IndexPaths |-> MetaAbsent]
    /\ inst = [i \in Insts |-> new_indexer("/w/A")]
    /\ clock = 0
    /\ since = [r \in Roots |-> NoSince]
    /\ call = [i \in Insts |-> NoCall]
    /\ tv = NoTv
    /\ last = NoLast

\* RlmIndexer(root, config)
Construct(i, arg) ==
    /\ inst' = [inst EXCEPT ![i] = new_indexer(arg)]
    /\ last' = [NoLast EXCEPT !.op = "construct", !.inst = i, !.root = resolve(arg),
                              !.index_path = get_index_path(resolve(arg))]
    /\ UNCHANGED <<fs, order, gitignore, dirExists, docs, meta, clock, since, call, tv>>

\* obj.index_directory(options, force=force) for the indexer object obj kept in
\* slot i; honoured is the force the body acts on. note names the operation and,
\* for the calls of tools_search, the root asked for and whether obj is new. The
\* clock, read at each turn of the loop, may go on to upto during the call.
IndexCallOn(i, obj, note, opts, force, honoured, upto) ==
    LET ip == obj.index_path
        r == obj.root
        objects == [inst EXCEPT ![i] = obj]
        st1 == IF honoured THEN clear(Store, ip) ELSE Store
        cached == IF honoured THEN FALSE ELSE obj.handle
        st2 == IF cached THEN st1 ELSE ensure_index_create(st1, ip)
        walk == collect_directory(fs[r], order[r], gitignore[r], opts)
        loaded == load_metadata(st2.meta[ip], r)
        \* the files the loop turns over: none when the walk or the load raised
        files == IF walk.raised # "" \/ loaded.raised # "" THEN << >> ELSE walk.files
    IN  \E times \in Readings(clock, Len(files), upto) :
        LET
        run == index_files(honoured,
                           [metadata |-> loaded, pending |-> << >>, indexed_count |-> 0,
                            skipped_count |-> 0, raised |-> ""],
                           files, times)
        committed == commit(st2.docs[ip], run.pending)
        \* index.writer() on a cached handle whose directory is gone cannot take
        \* the writer lock; then the walk, the load and the loop may raise.
        failure == IF ~st2.dir[ip] THEN "EngineError"
                   ELSE IF walk.raised # "" THEN walk.raised
                   ELSE IF loaded.raised # "" THEN loaded.raised
                   ELSE run.raised
        \* writer.commit() has run when _save_metadata raises
        saved == save_metadata(st2.meta[ip], run.metadata)
        outcome == IF failure # "" THEN failure
                   ELSE IF saved.raised # "" THEN saved.raised ELSE "ok"
        done == outcome = "ok"
    IN  /\ Len(committed) <= MaxDocs
        /\ dirExists' = st2.dir
        /\ docs' = IF failure = "" THEN [st2.docs EXCEPT ![ip] = committed] ELSE st2.docs
        /\ meta' = IF failure = "" THEN [st2.meta EXCEPT ![ip] = saved.file] ELSE st2.meta
        /\ clock' = IF times = << >> THEN clock ELSE times[Len(times)]
        /\ inst' = [(IF honoured /\ dirExists[ip] THEN drop_readers(objects, ip) ELSE objects) EXCEPT
                        ![i].handle = TRUE,
                        ![i].searcher = IF cached THEN @ ELSE open_index(st2.docs[ip])]
        /\ since' = [q \in Roots |->
                       IF q \notin RootsAt(ip) \cup {r} THEN since[q]
                       ELSE IF done /\ q = r /\ ~force
                       THEN [valid |-> TRUE, opts |-> opts,
                             walked |-> seq_range(paths_of(walk.files)), edit |-> NoEdit]
                       ELSE NoSince]
        /\ last' = [NoLast EXCEPT
                      !.op = note.op, !.requested = note.requested, !.fresh = note.fresh,
                      !.inst = i, !.root = r, !.index_path = ip,
                      !.force = force, !.opts = opts, !.outcome = outcome,
                      !.indexed_count = IF done THEN run.indexed_count ELSE 0,
                      !.skipped_count = IF done THEN run.skipped_count ELSE 0,
                      !.walked = IF walk.raised # "" THEN << >> ELSE paths_of(walk.files),
                      !.total_bytes = IF done THEN walk.total_bytes ELSE 0,
                      !.preDir = dirExists[ip], !.preMeta = meta[ip].kind,
                      !.rel = IF force THEN NoRel ELSE relation(since[r], opts)]
        /\ UNCHANGED <<fs, order, gitignore, call>>

\* index_directory of the indexer object inst[i].
IndexCall(i, opts, force, honoured, upto) ==
    /\ IndexCallOn(i, inst[i], [op |-> "index", requested |-> "", fresh |-> FALSE],
                   opts, force, honoured, upto)
    /\ UNCHANGED tv

\* A build that ignores its force argument.
IndexDirectoryIgnoringForce(i, opts, force, upto) == IndexCall(i, opts, force, FALSE, upto)

IndexDirectory(i, opts, force, upto) == IndexCall(i, opts, force, force, upto)

\* A whole non-forced index_directory call of a new indexer object on the store st,
\* with the readings of the clock at its turns: the store it leaves.
index_directory_on(st, ip, r, opts, times) ==
    LET st2 == ensure_index_create(st, ip)
        walk == collect_directory(fs[r], order[r], gitignore[r], opts)
        loaded == load_metadata(st2.meta[ip], r)
        run == index_files(FALSE, new_run(loaded), walk.files, times)
    IN  IF walk.raised # "" \/ loaded.raised # "" \/ run.raised # "" THEN st2
        ELSE [st2 EXCEPT !.docs[ip] = commit(@, run.pending),
                         !.meta[ip] = save_metadata(@, run.metadata).file]

\* index_directory step by step. Lines 147-158: the clear of a forced call, the
\* handle, the writer, the walk and the load of the metadata. Nothing in these
\* lines looks for a call in progress on the same index path: the writer of line
\* 151 is asked for whatever the other indexer objects are doing. What
\* index.writer() does while another writer of the directory is alive is left to
\* the engine: it raises (its writer lock is taken) or it hands out the writer.
BeginIndex(i, opts, force) ==
    \E granted \in BOOLEAN :
    LET ip == inst[i].index_path
        r == inst[i].root
        st1 == IF force THEN clear(Store, ip) ELSE Store
        cached == IF force THEN FALSE ELSE inst[i].handle
        st2 == IF cached THEN st1 ELSE ensure_index_create(st1, ip)
        walk == collect_directory(fs[r], order[r], gitignore[r], opts)
        loaded == load_metadata(st2.meta[ip], r)
        others == {j \in Insts \ {i} : inst[j].index_path = ip /\ call[j].pc # "idle"}
        refused == others # {} /\ ~granted
        failure == IF ~st2.dir[ip] \/ refused THEN "EngineError"
                   ELSE IF walk.raised # "" THEN walk.raised
                   ELSE loaded.raised
        whole == index_files(force, new_run(loaded), walk.files,
                             [k \in 1..Len(walk.files) |-> clock])
    IN  /\ call[i].pc = "idle"
        /\ others = {} => granted
        /\ refused \/ Len(st2.docs[ip]) + Len(whole.pending) <= MaxDocs
        /\ dirExists' = st2.dir
        /\ docs' = st2.docs
        /\ meta' = st2.meta
        /\ inst' = [(IF force /\ dirExists[ip] THEN drop_readers(inst, ip) ELSE inst) EXCEPT
                        ![i].handle = TRUE,
                        ![i].searcher = IF cached THEN @ ELSE open_index(st2.docs[ip])]
        /\ since' = [q \in Roots |-> IF q \in RootsAt(ip) \cup {r} THEN NoSince ELSE since[q]]
        /\ call' = IF st2.dir[ip] /\ refused
                   THEN [j \in Insts |->
                            IF j \in others THEN [call[j] EXCEPT !.overlap = "refused"]
                            ELSE call[j]]
                   ELSE IF failure # "" THEN call
                   ELSE [j \in Insts |->
                            IF j = i
                            THEN [pc |-> "loop", force |-> force, opts |-> opts,
                                  files |-> walk.files, total_bytes |-> walk.total_bytes,
                                  acc |-> new_run(loaded), base |-> st2.docs[ip],
                                  log |-> << >>,
                                  overlap |-> IF others # {} THEN "granted" ELSE ""]
                            ELSE IF j \in others THEN [call[j] EXCEPT !.overlap = "granted"]
                            ELSE call[j]]
        /\ last' = [NoLast EXCEPT
                      !.op = IF failure # "" THEN "index" ELSE "begin",
                      !.inst = i, !.root = r, !.index_path = ip, !.force = force,
                      !.opts = opts, !.outcome = failure,
                      !.preDir = dirExists[ip], !.preMeta = meta[ip].kind]
        /\ UNCHANGED <<fs, order, gitignore, clock, tv>>

\* A loop turn that commits the document it has just added.
loop_turn_committing(c, committed, now) ==
    LET acc == index_file(c.force, c.acc, Head(c.files), now)
        added == Len(acc.pending) > Len(c.acc.pending)
    IN  [call |-> [c EXCEPT !.acc = [acc EXCEPT !.pending = << >>], !.files = Tail(@),
                            !.log = IF added THEN @ \o <<"add", "commit">> ELSE @],
         committed |-> commit(committed, acc.pending)]

\* One turn of the loop of lines 160-190: the next entry is skipped or its document
\* goes to the writer (line 181), which commits nothing.
loop_turn(c, committed, now) ==
    LET acc == index_file(c.force, c.acc, Head(c.files), now)
        added == Len(acc.pending) > Len(c.acc.pending)
    IN  [call |-> [c EXCEPT !.acc = acc, !.files = Tail(@),
                            !.log = IF added THEN Append(@, "add") ELSE @],
         committed |-> committed]

LoopTurn(i) ==
    LET ip == inst[i].index_path
        turn == loop_turn(call[i], docs[ip], clock)
        failure == turn.call.acc.raised
    IN  /\ call[i].pc = "loop"
        /\ call[i].files # << >>
        /\ docs' = [docs EXCEPT ![ip] = turn.committed]
        /\ call' = [call EXCEPT ![i] = IF failure # "" THEN NoCall ELSE turn.call]
        /\ last' = [NoLast EXCEPT
                      !.op = IF failure # "" THEN "index" ELSE "turn",
                      !.inst = i, !.root = inst[i].root, !.index_path = ip,
                      !.force = call[i].force, !.opts = call[i].opts, !.outcome = failure]
        /\ UNCHANGED <<fs, order, gitignore, dirExists, meta, inst, clock, since, tv>>

\* writer.commit(), line 192, once the loop is over. When the index directory was
\* removed while the loop ran (a clear() or a forced rebuild through another
\* indexer object), the commit finds no directory to write to and raises: the call
\* ends there, with nothing committed and no metadata saved.
CommitWriter(i) ==
    LET ip == inst[i].index_path
        failure == IF dirExists[ip] THEN "" ELSE "EngineError"
    IN  /\ call[i].pc = "loop"
        /\ call[i].files = << >>
        /\ docs' = IF failure # "" THEN docs
                   ELSE [docs EXCEPT ![ip] = commit(@, call[i].acc.pending)]
        /\ call' = IF failure # "" THEN [call EXCEPT ![i] = NoCall]
                   ELSE [call EXCEPT ![i].pc = "committed", ![i].log = Append(@, "commit")]
        /\ last' = [NoLast EXCEPT
                      !.op = IF failure # "" THEN "index" ELSE "commit",
                      !.inst = i, !.root = inst[i].root, !.index_path = ip,
                      !.force = call[i].force, !.opts = call[i].opts, !.outcome = failure,
                      !.overlap = call[i].overlap]
        /\ UNCHANGED <<fs, order, gitignore, dirExists, meta, inst, clock, since, tv>>

\* self._save_metadata(metadata) and the return, lines 193-201.
SaveAndReturn(i) ==
    LET ip == inst[i].index_path
        c == call[i]
        saved == save_metadata(meta[ip], c.acc.metadata)
        done == saved.raised = ""
    IN  /\ c.pc = "committed"
        \* metadata_path.parent.mkdir(parents=True, exist_ok=True), line 288
        /\ dirExists' = [dirExists EXCEPT ![ip] = TRUE]
        /\ meta' = [meta EXCEPT ![ip] = saved.file]
        /\ call' = [call EXCEPT ![i] = NoCall]
        /\ last' = [NoLast EXCEPT
                      !.op = "index", !.inst = i, !.root = inst[i].root, !.index_path = ip,
                      !.force = c.force, !.opts = c.opts,
                      !.outcome = IF done THEN "ok" ELSE saved.raised,
                      !.indexed_count = IF done THEN c.acc.indexed_count ELSE 0,
                      !.skipped_count = IF done THEN c.acc.skipped_count ELSE 0,
                      !.total_bytes = IF done THEN c.total_bytes ELSE 0,
                      !.log = Append(c.log, "save"), !.overlap = c.overlap]
        /\ UNCHANGED <<fs, order, gitignore, docs, inst, clock, since, tv>>

\* RlmIndexer.clear()
Clear(i) ==
    LET ip == inst[i].index_path
        st == clear(Store, ip)
    IN  /\ dirExists' = st.dir
        /\ docs' = st.docs
        /\ meta' = st.meta
        /\ inst' = [(IF dirExists[ip] THEN drop_readers(inst, ip) ELSE inst) EXCEPT
                        ![i].handle = FALSE, ![i].searcher = << >>]
        /\ since' = [q \in Roots |-> IF q \in RootsAt(ip) \cup {inst[i].root} THEN NoSince ELSE since[q]]
        /\ last' = [NoLast EXCEPT !.op = "clear", !.inst = i, !.root = inst[i].root,
                                  !.index_path = ip, !.outcome = "ok",
                                  !.preDir = dirExists[ip], !.preMeta = meta[ip].kind]
    /\ UNCHANGED <<fs, order, gitignore, clock, call, tv>>

\* collect_directory(root, options=opts) called on its own.
CollectDirectory(r, opts) ==
    LET result == collect_directory(fs[r], order[r], gitignore[r], opts)
    IN  /\ last' = [NoLast EXCEPT !.op = "collect", !.root = r, !.opts = opts,
                                  !.outcome = IF result.raised # "" THEN result.raised ELSE "ok",
                                  !.walk = result]
        /\ UNCHANGED <<fs, order, gitignore, dirExists, docs, meta, inst, clock, since, call, tv>>

\* build_context_from_sources(sources, root=r, options=opts), stdin holding text.
BuildContext(r, sources, opts, stdin) ==
    LET built == build_context_from_sources(sources, fs[r], order[r], gitignore[r], opts, stdin)
        done == built.raised = ""
    IN  /\ last' = [NoLast EXCEPT !.op = "context", !.root = r, !.opts = opts,
                                  !.sources = sources,
                                  !.outcome = IF done THEN "ok" ELSE built.raised,
                                  !.walk = IF done THEN built.combined ELSE WalkResultEmpty,
                                  !.documents = IF done THEN built.documents ELSE << >>]
        /\ UNCHANGED <<fs, order, gitignore, dirExists, docs, meta, inst, clock, since, call, tv>>

(***************************************************************************)
(* search.                                                                 *)
(***************************************************************************)
\* The text of a path and of its stem, as code points.
path_text(p) ==
    CASE p = "a.py" -> <<97, 46, 112, 121>> [] p = "b.md" -> <<98, 46, 109, 100>> [] OTHER -> << >>
stem_text(p) == CASE p = "a.py" -> <<97>> [] p = "b.md" -> <<98>> [] OTHER -> << >>

is_alnum(c) == c \in 48..57 \/ c \in 65..90 \/ c \in 97..122
lower(c) == IF c \in 65..90 THEN c + 32 ELSE c

\* The engine's default tokenizer: maximal runs of alphanumerics, lowercased.
RECURSIVE tokenize(_, _)
tokenize(text, cur) ==
    IF text = << >> THEN (IF cur = << >> THEN {} ELSE {cur})
    ELSE IF is_alnum(Head(text)) THEN tokenize(Tail(text), Append(cur, lower(Head(text))))
    ELSE (IF cur = << >> THEN {} ELSE {cur}) \cup tokenize(Tail(text), << >>)

tokens(text) == tokenize(text, << >>)

\* "path_stem:q^3.0 OR path:q^2.0 OR content:q^1.0": a term of q in any field.
doc_matches(query, d) ==
    tokens(query) \cap (tokens(d.content) \cup tokens(path_text(d.path)) \cup tokens(stem_text(d.path))) # {}

\* The rankings the engine may give the matching documents (by position in ds).
Rankings(query, ds) ==
    LET hit == {k \in 1..Len(ds) : doc_matches(query, ds[k])}
    IN  {s \in [1..Cardinality(hit) -> hit] : \A a, b \in DOMAIN s : a # b => s[a] # s[b]}

RECURSIVE select_language(_, _, _)
select_language(ds, hits, language) ==
    IF hits = << >> THEN << >>
    ELSE LET d == ds[Head(hits)]
             rest == select_language(ds, Tail(hits), language)
         IN  IF language # None /\ language # Some("") /\ d.language # language[1] THEN rest
             ELSE <<[path |-> d.path, language |-> d.language, doc_id |-> d.doc_id,
                     sha256 |-> d.sha256, bytes_size |-> d.bytes_size]>> \o rest

\* searcher.search(parsed_query, limit).hits: the first limit of the ranking.
search_hits(ranking, limit) == SubSeq(ranking, 1, Min(limit, Len(ranking)))

\* A search that filters the whole ranking by language and then cuts it to limit.
search_results_filter_first(ds, ranking, limit, language) ==
    LET all == select_language(ds, ranking, language)
    IN  SubSeq(all, 1, Min(limit, Len(all)))

\* searcher.search(parsed_query, limit).hits, then the loop of lines 240-257.
search_results(ds, ranking, limit, language) ==
    select_language(ds, search_hits(ranking, limit), language)

\* TVHit(...).to_dict() of each SearchResult: doc_id, score, path, language and
\* bytes_size, no sha256. The scores are not modelled.
tv_hits(results) ==
    [k \in 1..Len(results) |->
        [doc_id |-> results[k].doc_id, path |-> results[k].path,
         language |-> results[k].language, bytes_size |-> results[k].bytes_size]]

\* obj.search(query, limit, language) for the indexer object obj kept in slot i;
\* as_hits: the caller is tv.search, which returns the results as TVHit dicts.
SearchOn(i, obj, note, query, limit, language, as_hits) ==
    LET returned(results) == IF as_hits THEN tv_hits(results) ELSE results IN
    LET ip == obj.index_path
        objects == [inst EXCEPT ![i] = obj]
        base == [NoLast EXCEPT !.op = note.op, !.requested = note.requested,
                               !.fresh = note.fresh, !.held = note.held,
                               !.inst = i, !.root = obj.root,
                               !.index_path = ip, !.preDir = dirExists[ip],
                               !.preMeta = meta[ip].kind, !.query = query,
                               !.limit = limit, !.language = language,
                               !.stale = obj.handle /\ obj.searcher # docs[ip]]
        opened == IF obj.handle THEN obj.searcher ELSE open_index(docs[ip])
        view == reload(opened, docs[ip])
    IN  /\ IF ~obj.handle /\ ~dirExists[ip]
           THEN \* _ensure_index(create=False), lines 122-127
                /\ last' = [base EXCEPT !.outcome = "IndexError: Index does not exist."]
                /\ inst' = objects
           ELSE IF ~dirExists[ip]
           THEN \* a cached handle, the directory gone: index.reload() finds no index
                /\ last' = [base EXCEPT !.outcome = "EngineError"]
                /\ inst' = objects
           ELSE /\ \E ranking \in Rankings(query, view) :
                     last' = [base EXCEPT !.outcome = "ok",
                                          !.hits = search_hits(ranking, limit),
                                          !.results = returned(search_results(view, ranking, limit, language))]
                /\ inst' = [objects EXCEPT ![i].handle = TRUE, ![i].searcher = view]
        /\ UNCHANGED <<fs, order, gitignore, dirExists, docs, meta, clock, since, call>>

\* RlmIndexer.search(query, limit, language) of the indexer object inst[i].
Search(i, query, limit, language) ==
    /\ SearchOn(i, inst[i], [op |-> "search", requested |-> "", fresh |-> FALSE, held |-> ""],
                query, limit, language, FALSE)
    /\ UNCHANGED tv

(***************************************************************************)
(* tools_search: the tv.* wrapper and its module-level indexer cache.      *)
(***************************************************************************)
\* configure_root(root): SEARCH_ROOT = root
ConfigureRoot(root) ==
    /\ tv' = [tv EXCEPT !.search_root = Some(root)]
    /\ last' = [NoLast EXCEPT !.op = "configure_root", !.requested = root]
    /\ UNCHANGED <<fs, order, gitignore, dirExists, docs, meta, inst, clock, since, call>>

\* A build whose cache is keyed on nothing: the cached indexer serves any root.
get_tv_indexer_sticky(cache, obj, root) ==
    [tv |-> [cache EXCEPT !.cached = TRUE,
                          !.root = IF cache.cached THEN @ ELSE resolve(root)],
     obj |-> IF cache.cached THEN obj ELSE new_indexer(root),
     fresh |-> ~cache.cached]

\* _get_tv_indexer(root): the cached RlmIndexer, or a new one when nothing is
\* cached or the cached one was made for another resolved root.
get_tv_indexer(cache, obj, root) ==
    LET r == resolve(root)
        fresh == ~cache.cached \/ cache.root # r
    IN  [tv |-> IF fresh THEN [cache EXCEPT !.cached = TRUE, !.root = r] ELSE cache,
         obj |-> IF fresh THEN new_indexer(r) ELSE obj,
         fresh |-> fresh]

\* tv.search(query=, limit=, root=, language=)
TvSearch(root, query, limit, language) ==
    LET effective_root == IF root # None THEN root ELSE tv.search_root
        root_path == IF effective_root # None /\ effective_root[1] # ""
                     THEN effective_root[1] ELSE "."
        got == get_tv_indexer(tv, inst[TvSlot], root_path)
    IN  /\ tv' = got.tv
        /\ SearchOn(TvSlot, got.obj,
                    [op |-> "tv.search", requested |-> root_path, fresh |-> got.fresh,
                     held |-> IF tv.cached THEN tv.root ELSE ""],
                    query, limit, language, TRUE)

\* tv.ensure_index(root, force): the cache is emptied and filled again, then
\* WalkOptions(..., use_markitdown=False) raises TypeError, WalkOptions having no
\* such field: index_directory is never reached.
TvEnsureIndex(root, force) ==
    LET root_path == IF root # None /\ root[1] # "" THEN root[1] ELSE "."
        reset == [tv EXCEPT !.cached = FALSE, !.root = ""]
        got == get_tv_indexer(reset, inst[TvSlot], root_path)
    IN  /\ tv' = got.tv
        /\ inst' = [inst EXCEPT ![TvSlot] = got.obj]
        /\ last' = [NoLast EXCEPT
                      !.op = "tv.ensure_index", !.requested = root_path,
                      !.fresh = got.fresh, !.held = IF tv.cached THEN tv.root ELSE "",
                      !.inst = TvSlot, !.root = got.obj.root,
                      !.index_path = got.obj.index_path, !.force = force,
                      !.outcome = "TypeError",
                      !.preDir = dirExists[got.obj.index_path],
                      !.preMeta = meta[got.obj.index_path].kind]
        /\ UNCHANGED <<fs, order, gitignore, dirExists, docs, meta, clock, since, call>>

\* path_to_entry of filter_files_by_search: the last entry of files with the path.
path_to_entry(files, path) ==
    LET at == {k \in 1..Len(files) : files[k].path = path}
    IN  files[CHOOSE k \in at : \A j \in at : j <= k]

\* The loop of lines 382-384: the entry of every result whose path files holds.
RECURSIVE filter_by_results(_, _)
filter_by_results(files, results) ==
    IF results = << >> THEN << >>
    ELSE (IF \E k \in 1..Len(files) : files[k].path = Head(results).path
          THEN <<path_to_entry(files, Head(results).path)>> ELSE << >>)
         \o filter_by_results(files, Tail(results))

\* filter_files_by_search(files, query, root, config, limit) with the engine
\* available, files being what a walk of the root with opts returns: a new
\* RlmIndexer of the root searches, and the results select the entries.
FilterFilesBySearch(r, opts, query, limit) ==
    LET ip == get_index_path(resolve(r))
        walk == collect_directory(fs[r], order[r], gitignore[r], opts)
        base == [NoLast EXCEPT !.op = "filter", !.root = resolve(r), !.index_path = ip,
                               !.opts = opts, !.query = query, !.limit = limit,
                               !.preDir = dirExists[ip], !.walk = walk]
        view == reload(open_index(docs[ip]), docs[ip])
    IN  /\ walk.raised = ""
        /\ IF ~dirExists[ip]
           THEN last' = [base EXCEPT !.outcome = "IndexError: Index does not exist."]
           ELSE \E ranking \in Rankings(query, view) :
                   LET results == search_results(view, ranking, limit, None)
                   IN  last' = [base EXCEPT !.outcome = "ok",
                                            !.hits = search_hits(ranking, limit),
                                            !.results = results,
                                            !.filtered = filter_by_results(walk.files, results)]
        /\ UNCHANGED <<fs, order, gitignore, dirExists, docs, meta, inst, clock, since, call, tv>>

(***************************************************************************)
(* The environment: the files of a root and the metadata file change.      *)
(***************************************************************************)
Orders == {<<"a.py", "b.md">>, <<"b.md", "a.py">>}

note_edit(s, p, old) ==
    IF ~s.valid THEN s
    ELSE IF s.edit.n = 0 /\ old # Absent THEN [s EXCEPT !.edit = [n |-> 1, path |-> p, old |-> old]]
    ELSE [s EXCEPT !.edit = [n |-> 2, path |-> "", old |-> Absent]]

\* A file is created or its content replaced. A created file may change the order
\* in which os.walk enumerates the files: orders are the orders it may take.
WriteFile(r, p, c, orders) ==
    /\ fs[r][p] # c
    /\ fs' = [fs EXCEPT ![r][p] = c]
    /\ \E o \in (IF fs[r][p] = Absent /\ \A q \in Paths \ {p} : fs[r][q] # Absent
                 THEN orders ELSE {order[r]}) :
           order' = [order EXCEPT ![r] = o]
    /\ since' = [since EXCEPT ![r] = note_edit(@, p, fs[r][p])]
    /\ last' = [NoLast EXCEPT !.op = "write", !.root = r]
    /\ UNCHANGED <<gitignore, dirExists, docs, meta, inst, clock, call, tv>>

\* A file is removed.
DeleteFile(r, p) ==
    /\ fs[r][p] # Absent
    /\ fs' = [fs EXCEPT ![r][p] = Absent]
    /\ since' = [since EXCEPT ![r] = note_edit(@, p, Absent)]
    /\ last' = [NoLast EXCEPT !.op = "delete", !.root = r]
    /\ UNCHANGED <<order, gitignore, dirExists, docs, meta, inst, clock, call, tv>>

\* The metadata file of an index directory is damaged or removed from outside.
TamperMetadata(ip, kind) ==
    /\ dirExists[ip]
    /\ meta[ip].kind # kind
    /\ meta' = [meta EXCEPT ![ip] = MetaFile(kind)]
    /\ since' = [q \in Roots |-> IF q \in RootsAt(ip) THEN NoSince ELSE since[q]]
    /\ last' = [NoLast EXCEPT !.op = "tamper", !.index_path = ip]
    /\ UNCHANGED <<fs, order, gitignore, dirExists, docs, inst, clock, call, tv>>

\* Time passes: _timestamp() returns a later reading from now on.
Tick ==
    /\ clock < MaxClock
    /\ clock' = clock + 1
    /\ last' = [NoLast EXCEPT !.op = "tick"]
    /\ UNCHANGED <<fs, order, gitignore, dirExists, docs, meta, inst, since, call, tv>>

(***************************************************************************)
(* Specifications.                                                         *)
(***************************************************************************)
OptPy == [WalkOptionsDefault EXCEPT !.extensions = Some({"py"})]
OptError == [WalkOptionsDefault EXCEPT !.binary_policy = "error"]
OptBudget == [WalkOptionsDefault EXCEPT !.max_total_bytes = Some(3)]

QueryH == <<104>>
RootA == "/w/A"
RootB == "/w/B"
InOrder == <<"a.py", "b.md">>

\* The contents the files of a root take: a.py is rewritten with text, with bytes
\* that are no UTF-8 and with binary data; b.md comes and goes.
Contents(p) == IF p = "a.py" THEN {TextH, BadFF, BadFE, Nul} ELSE {TextHi}

\* One root and one indexer object: builds, rebuilds and clears interleaved with
\* changes of the files, with and without a byte budget.
Next ==
    \/ \E opts \in {WalkOptionsDefault, OptBudget}, force \in BOOLEAN : IndexDirectory("x", opts, force, clock)
    \/ Clear("x")
    \/ \E p \in Paths : \E c \in Contents(p) : WriteFile(RootA, p, c, Orders)
    \/ \E p \in Paths : DeleteFile(RootA, p)

Spec == Init /\ [][Next]_vars

\* One root whose walk may raise and whose metadata file is damaged from outside.
NextDamage ==
    \/ \E opts \in {WalkOptionsDefault, OptError}, force \in BOOLEAN : IndexDirectory("x", opts, force, clock)
    \/ Clear("x")
    \/ \E p \in Paths : \E c \in Contents(p) \ {BadFF, BadFE} : WriteFile(RootA, p, c, {InOrder})
    \/ \E p \in Paths : DeleteFile(RootA, p)
    \/ \E kind \in MetaKindsBad : TamperMetadata(get_index_path(RootA), kind)

SpecDamage == Init /\ [][NextDamage]_vars

\* One root and two indexer objects for it, each with its own cached handle.
NextHandles ==
    \/ \E i \in Insts, force \in BOOLEAN : IndexDirectory(i, WalkOptionsDefault, force, clock)
    \/ \E i \in Insts : Clear(i)
    \/ \E i \in Insts : Search(i, QueryH, 1, None)
    \/ \E i \in Insts, arg \in {"/w/A", "/w/A/."} : Construct(i, arg)
    \/ \E p \in Paths : \E c \in Contents(p) \ {BadFF, BadFE, Nul} : WriteFile(RootA, p, c, {InOrder})
    \/ \E p \in Paths : DeleteFile(RootA, p)

SpecHandles == Init /\ [][NextHandles]_vars

\* Two roots: the indexer object x works on /w/A, y is opened on /w/B.
NextRoots ==
    \/ \E i \in Insts, force \in BOOLEAN : IndexDirectory(i, WalkOptionsDefault, force, clock)
    \/ \E i \in Insts : Clear(i)
    \/ \E i \in Insts : Search(i, QueryH, 1, None)
    \/ \E arg \in {"/w/A", "/w/A/."} : Construct("x", arg)
    \/ Construct("y", "/w/B")
    \/ \E c \in {TextH, TextHi} : WriteFile(RootA, "a.py", c, {InOrder})
    \/ WriteFile(RootB, "a.py", TextH, {InOrder})

SpecRoots == Init /\ [][NextRoots]_vars

\* The walker on every tree of WalkPaths: text, binary data, names whose stat()
\* fails and files whose open() fails, enumerated in either order of the root's
\* files, with and without a .gitignore.
OptNoExt == [WalkOptionsDefault EXCEPT !.extensions = Some({})]
OptBudgetOne == [WalkOptionsDefault EXCEPT !.max_total_bytes = Some(1)]
OptFileCap == [WalkOptionsDefault EXCEPT !.max_file_bytes = Some(1)]
OptNoGitignore == [WalkOptionsDefault EXCEPT !.respect_gitignore = FALSE]
OptErrorNoGitignore == [OptError EXCEPT !.respect_gitignore = FALSE]
WalkOpts ==
    {WalkOptionsDefault, OptPy, OptNoExt, OptError, OptBudget, OptBudgetOne, OptFileCap,
     OptNoGitignore, OptErrorNoGitignore, [OptFileCap EXCEPT !.max_total_bytes = Some(1)],
     [WalkOptionsDefault EXCEPT !.max_total_bytes = Some(0)],
     [WalkOptionsDefault EXCEPT !.max_total_bytes = Some(-1)]}

WalkContents(p) ==
    CASE p = "a.py" -> {Absent, TextH, Nul, StatFails, Unreadable(TextH)}
      [] p = "b.md" -> {Absent, TextHi, Unreadable(TextHi)}
      [] OTHER -> {Absent, TextH, StatFails}
WalkOrders == {<<"a.py", "b.md", "a/c.js">>, <<"b.md", "a.py", "a/c.js">>}

InitWalk ==
    /\ \E tree \in {w \in [WalkPaths -> UNION {WalkContents(p) : p \in WalkPaths}] :
                        \A p \in WalkPaths : w[p] \in WalkContents(p)} :
          fs = [r \in Roots |-> IF r = RootA THEN tree ELSE [p \in WalkPaths |-> Absent]]
    /\ \E o \in WalkOrders : order = [r \in Roots |-> o]
    /\ \E g \in {None, Some({"*.md"}), Some({"a/"}), GitignoreUnreadable, GitignoreUndecodable} :
          gitignore = [r \in Roots |-> IF r = RootA THEN g ELSE None]
    /\ dirExists = [ip \in IndexPaths |-> FALSE]
    /\ docs = [ip \in IndexPaths |-> << >>]
    /\ meta = [ip \in IndexPaths |-> MetaAbsent]
    /\ inst = [i \in Insts |-> new_indexer("/w/A")]
    /\ clock = 0
    /\ since = [r \in Roots |-> NoSince]
    /\ call = [i \in Insts |-> NoCall]
    /\ tv = NoTv
    /\ last = NoLast

NextWalk == \E opts \in WalkOpts : CollectDirectory(RootA, opts)

SpecWalk == InitWalk /\ [][NextWalk]_vars

\* The walker on trees with directories: a, node_modules and the hidden .hid, with
\* extension allow-lists and include globs that name the files below them.
OptIncludePy == [WalkOptionsDefault EXCEPT !.include_globs = {"*.py"}]
DirOpts ==
    {WalkOptionsDefault, OptPy, OptIncludePy, OptNoGitignore,
     [WalkOptionsDefault EXCEPT !.include_hidden = TRUE],
     [OptPy EXCEPT !.include_hidden = TRUE, !.include_globs = {"*.py"}]}

InitDirs ==
    /\ \E tree \in [DirPaths -> {Absent, TextH}] :
          fs = [r \in Roots |-> IF r = RootA THEN tree ELSE [p \in DirPaths |-> Absent]]
    /\ \E o \in {<<"a.py", "a/c.js", "node_modules/d.py", ".hid/e.py">>,
                  <<"a.py", ".gitignore", ".hid/e.py", "node_modules/d.py", "a/c.js">>} :
          order = [r \in Roots |-> o]
    /\ \E g \in {None, Some({"a/"})} : gitignore = [r \in Roots |-> IF r = RootA THEN g ELSE None]
    /\ dirExists = [ip \in IndexPaths |-> FALSE]
    /\ docs = [ip \in IndexPaths |-> << >>]
    /\ meta = [ip \in IndexPaths |-> MetaAbsent]
    /\ inst = [i \in Insts |-> new_indexer("/w/A")]
    /\ clock = 0
    /\ since = [r \in Roots |-> NoSince]
    /\ call = [i \in Insts |-> NoCall]
    /\ tv = NoTv
    /\ last = NoLast

NextDirs == \E opts \in DirOpts : CollectDirectory(RootA, opts)

SpecDirs == InitDirs /\ [][NextDirs]_vars

\* The context builder on the same trees: a file, the directory, both, literal
\* text and stdin as sources.
SourceLists ==
    {<<FileSource("a.py")>>, <<DirSource>>, <<DirSource, FileSource("b.md")>>,
     <<LiteralSource(TextHi)>>, <<StdinSource, FileSource("a.py")>>, << >>}

NextContext ==
    \E sources \in SourceLists, opts \in {WalkOptionsDefault, OptError} :
        BuildContext(RootA, sources, opts, TextH)

SpecContext == InitWalk /\ [][NextContext]_vars

\* One root and two indexer objects: x builds, both search with a limit and a
\* language filter. a.py and b.md both hold the term h of the query.
Limits == {1, 2}

NextSearch ==
    \/ IndexDirectory("x", WalkOptionsDefault, FALSE, clock)
    \/ \E i \in Insts, limit \in Limits, language \in {None, Some(""), Some("python")} : Search(i, QueryH, limit, language)
    \/ \E p \in Paths : WriteFile(RootA, p, TextH, {InOrder})

SpecSearch == Init /\ [][NextSearch]_vars

\* One root and one indexer object while time passes: builds, rebuilds and clears
\* between changes of the files, the timestamps of the entries being told apart.
NextFrame ==
    \/ \E force \in BOOLEAN : IndexDirectory("x", WalkOptionsDefault, force, MaxClock)
    \/ Clear("x")
    \/ \E c \in {TextH, TextHi} : WriteFile(RootA, "a.py", c, {InOrder})
    \/ WriteFile(RootA, "b.md", TextHi, {InOrder})
    \/ \E p \in Paths : DeleteFile(RootA, p)
    \/ Tick

SpecFrame == Init /\ [][NextFrame]_vars

\* The tv wrapper over two roots: tv.search and tv.ensure_index calls that name a
\* root, or leave it to SEARCH_ROOT and the working directory, while a.py is
\* written and the roots are indexed through an RlmIndexer of their own.
TvRoots == {None, Some(""), Some("/w/A/."), Some("/w/B")}
NextTv ==
    \/ \E root \in TvRoots : TvSearch(root, QueryH, 1, None)
    \/ \E root \in TvRoots, force \in BOOLEAN : TvEnsureIndex(root, force)
    \/ ConfigureRoot(RootB)
    \/ \E arg \in {RootA, RootB} : Construct("y", arg)
    \/ IndexDirectory("y", WalkOptionsDefault, FALSE, clock)
    \/ \E r \in {RootA, RootB} : WriteFile(r, "a.py", TextH, {InOrder})

SpecTv == Init /\ [][NextTv]_vars

\* One root indexed and re-indexed between edits of its files, and collected
\* files filtered by a search of that index. Every content holds the term h.
NextFilter ==
    \/ IndexDirectory("x", WalkOptionsDefault, FALSE, clock)
    \/ \E c \in {TextH, TextHi} : WriteFile(RootA, "a.py", c, {InOrder})
    \/ WriteFile(RootA, "b.md", TextHi, {InOrder})
    \/ \E opts \in {WalkOptionsDefault, OptPy}, limit \in Limits :
          FilterFilesBySearch(RootA, opts, QueryH, limit)

SpecFilter == Init /\ [][NextFilter]_vars

\* Two indexer objects of one root, each making one non-forced call, x for the
\* Python files and y for all files, the steps of the two calls interleaved.
RaceOpts(i) == IF i = "x" THEN OptPy ELSE WalkOptionsDefault

InitRace ==
    /\ \E a \in {Absent, TextH, TextHi}, b \in {Absent, TextH, TextHi} :
          fs = [r \in Roots |->
                   IF r = RootA THEN [p \in Paths |-> IF p = "a.py" THEN a ELSE b]
                   ELSE [p \in Paths |-> Absent]]
    /\ order = [r \in Roots |-> InOrder]
    /\ gitignore = [r \in Roots |-> None]
    /\ dirExists = [ip \in IndexPaths |-> FALSE]
    /\ docs = [ip \in IndexPaths |-> << >>]
    /\ meta = [ip \in IndexPaths |-> MetaAbsent]
    /\ inst = [i \in Insts |-> new_indexer("/w/A")]
    /\ clock = 0
    /\ since = [r \in Roots |-> NoSince]
    /\ call = [i \in Insts |-> NoCall]
    /\ tv = NoTv
    /\ last = NoLast

NextRace ==
    \/ \E i \in Insts : ~inst[i].handle /\ BeginIndex(i, RaceOpts(i), FALSE)
    \/ \E i \in Insts : LoopTurn(i)
    \/ \E i \in Insts : CommitWriter(i)
    \/ \E i \in Insts : SaveAndReturn(i)

SpecRace == InitRace /\ [][NextRace]_vars

\* One root and two indexer objects: x runs index_directory step by step while y
\* searches and clears the index, the files change and time passes.
NextSteps ==
    \/ \E force \in BOOLEAN : BeginIndex("x", WalkOptionsDefault, force)
    \/ LoopTurn("x")
    \/ CommitWriter("x")
    \/ SaveAndReturn("x")
    \/ Search("y", QueryH, 2, None)
    \/ Clear("y")
    \/ \E c \in {TextH, TextHi} : WriteFile(RootA, "a.py", c, {InOrder})
    \/ WriteFile(RootA, "b.md", TextHi, {InOrder})
    \/ Tick

SpecSteps == Init /\ [][NextSteps]_vars

(***************************************************************************)
(* Properties.                                                             *)
(***************************************************************************)
IndexDone == last.op = "index" /\ last.outcome = "ok"
IsPrefix(s, t) == Len(s) <= Len(t) /\ SubSeq(t, 1, Len(s)) = s
CurrentText(r, p) == decode_replace(fs[r][p])

\* C1: a completed non-forced index_directory that follows a completed non-forced
\* one on the same root with the same options, no file touched in between (through
\* the same, a re-created or another indexer object), indexes nothing and skips
\* every file of its walk.
C1_IdempotentIndexing ==
    (IndexDone /\ ~last.force /\ last.rel.kind = "repeat")
        => (last.indexed_count = 0 /\ last.skipped_count = Len(last.walked))

C1_Witness ==
    /\ IndexDone /\ ~last.force /\ last.rel.kind = "repeat"
    /\ Len(last.walked) = 2
    /\ last.skipped_count = 2

\* C2, as claimed: when exactly one previously indexed file was rewritten between
\* two non-forced calls, the second call indexes one file and skips every other
\* previously indexed file.
C2_AsClaimed ==
    (IndexDone /\ ~last.force /\ last.rel.kind = "modified")
        => (/\ last.indexed_count = 1
            /\ last.skipped_count = Cardinality(last.rel.walked \ {last.rel.path}))

\* C2, amended: the same, provided the rewrite changed the decoded text of the file
\* and the second walk returns the same files as the first.
C2_ChangeDetection ==
    (/\ IndexDone /\ ~last.force /\ last.rel.kind = "modified"
     /\ decode_replace(last.rel.old) # CurrentText(last.root, last.rel.path)
     /\ seq_range(last.walked) = last.rel.walked)
        => (/\ last.indexed_count = 1
            /\ last.skipped_count = Cardinality(last.rel.walked \ {last.rel.path}))

C2_Witness ==
    /\ IndexDone /\ ~last.force /\ last.rel.kind = "modified"
    /\ decode_replace(last.rel.old) # CurrentText(last.root, last.rel.path)
    /\ seq_range(last.walked) = last.rel.walked
    /\ Cardinality(last.rel.walked) = 2
    /\ last.indexed_count = 1 /\ last.skipped_count = 1

\* C3: a completed forced index_directory indexes every file of its walk and skips
\* none, whatever was there before (nothing, an index of the same content, a
\* damaged metadata file, a cleared index).
C3_ForceRebuild ==
    (IndexDone /\ last.force)
        => (last.indexed_count = Len(last.walked) /\ last.skipped_count = 0)

C3_Witness ==
    /\ IndexDone /\ last.force /\ last.preMeta = "json"
    /\ Len(last.walked) = 2 /\ last.indexed_count = 2

\* C4: right after a completed forced index_directory the committed documents are
\* one per file of the walk, each with the hash of the file's current text, and
\* the keys of the saved metadata are the walked paths.
C4_ForcedRebuildIsClean ==
    (IndexDone /\ last.force)
        => LET ds == docs[last.index_path]
               m == meta[last.index_path]
           IN  /\ Len(ds) = Len(last.walked)
               /\ \A k \in 1..Len(ds) :
                    /\ ds[k].path = last.walked[k]
                    /\ ds[k].sha256 = sha256_hex(CurrentText(last.root, ds[k].path))
               /\ m.kind = "json"
               /\ DOMAIN m.files = seq_range(last.walked)

C4_Witness ==
    /\ IndexDone /\ last.force
    /\ last.preDir /\ last.preMeta = "json"
    /\ Len(last.walked) = 1
    /\ Len(docs[last.index_path]) = 1

\* C5: distinct roots have distinct index paths, indexer objects of one root have
\* one index path, and an index_directory, search or clear on one root changes
\* neither the index directory, the committed documents nor the metadata of
\* another root.
C5_PathsOK ==
    /\ \A r1, r2 \in Roots : r1 # r2 => get_index_path(r1) # get_index_path(r2)
    /\ \A i, j \in Insts : inst[i].root = inst[j].root => inst[i].index_path = inst[j].index_path
    /\ \A i \in Insts : inst[i].index_path = get_index_path(inst[i].root)

C5_RootIsolation ==
    [][/\ C5_PathsOK'
       /\ last'.op \in {"index", "search", "clear"} =>
            \A r \in Roots \ {last'.root} :
                /\ dirExists'[get_index_path(r)] = dirExists[get_index_path(r)]
                /\ docs'[get_index_path(r)] = docs[get_index_path(r)]
                /\ meta'[get_index_path(r)] = meta[get_index_path(r)]]_vars

C5_Witness ==
    /\ last.op = "index" /\ last.force /\ last.outcome = "ok" /\ last.root = RootA
    /\ last.preDir
    /\ Len(docs[get_index_path(RootA)]) = 1
    /\ Len(docs[get_index_path(RootB)]) = 1
    /\ meta[get_index_path(RootB)].kind = "json"
    /\ inst["y"].root = RootB

\* C6, as claimed: an index_directory that fails before its commit (the walk raises
\* InputError) leaves the committed documents and the metadata of its root as they
\* were, forced or not.
C6_FailedCallKeepsIndex ==
    [][(last'.op = "index" /\ last'.outcome = "InputError")
         => (/\ docs'[last'.index_path] = docs[last'.index_path]
             /\ meta'[last'.index_path] = meta[last'.index_path])]_vars

\* C7: a non-forced index_directory retracts nothing: the committed documents of
\* before are still there, in place, and so is every metadata entry.
C7_NonForcedOnlyGrows ==
    [][(last'.op = "index" /\ ~last'.force)
         => (/\ IsPrefix(docs[last'.index_path], docs'[last'.index_path])
             /\ meta[last'.index_path].kind = "json"
                  => (/\ meta'[last'.index_path].kind = "json"
                      /\ DOMAIN meta[last'.index_path].files
                            \subseteq DOMAIN meta'[last'.index_path].files))]_vars

\* An edited file has its old and its new document, a deleted file keeps its
\* document and its metadata entry.
C7_Witness ==
    /\ IndexDone /\ ~last.force
    /\ LET ds == docs[last.index_path] IN
        /\ \E j, k \in 1..Len(ds) : j < k /\ ds[j].path = ds[k].path /\ ds[j].sha256 # ds[k].sha256
        /\ \E k \in 1..Len(ds) :
            /\ fs[last.root][ds[k].path] = Absent
            /\ ds[k].path \in DOMAIN meta[last.index_path].files

\* C8, as claimed: a search on a root whose index directory does not exist fails
\* with "Index does not exist", returns nothing and creates no directory.
C8_SearchWithoutIndex ==
    (last.op = "search" /\ ~last.preDir)
        => (/\ last.outcome = "IndexError: Index does not exist."
            /\ last.results = << >>
            /\ ~dirExists[last.index_path])

\* C9, as claimed: a non-forced index_directory that finds the metadata file absent,
\* unreadable or corrupt (and whose walk does not raise) completes, indexes every
\* walked file, skips none and saves metadata covering every walked file.
C9_DamagedMetadataIsEmpty ==
    (/\ last.op = "index" /\ ~last.force /\ last.preMeta \in MetaKindsBad
     /\ last.outcome \notin {"InputError", "EngineError"})
        => (/\ last.outcome = "ok"
            /\ last.indexed_count = Len(last.walked)
            /\ last.skipped_count = 0
            /\ meta[last.index_path].kind = "json"
            /\ seq_range(last.walked) \subseteq DOMAIN meta[last.index_path].files)

\* C10: clear() leaves no index directory, no committed documents and no metadata,
\* raises nothing, and changes nothing on disk when the directory is already gone.
C10_ClearIdempotent ==
    [][(last'.op = "clear")
         => (/\ last'.outcome = "ok"
             /\ ~dirExists'[last'.index_path]
             /\ docs'[last'.index_path] = << >>
             /\ meta'[last'.index_path] = MetaAbsent
             /\ ~dirExists[last'.index_path]
                  => (dirExists' = dirExists /\ docs' = docs /\ meta' = meta /\ fs' = fs))]_vars

\* clear() on an index directory that is already absent, the root holding files.
C10_Witness ==
    /\ last.op = "clear" /\ ~last.preDir /\ last.outcome = "ok"
    /\ ~dirExists[last.index_path]
    /\ \E p \in Paths : fs[last.root][p] # Absent

SearchDone == last.op = "search" /\ last.outcome = "ok"

\* What the same search returns without a language filter: one result per hit.
Unfiltered == select_language(inst[last.inst].searcher, last.hits, None)

\* C11, as claimed: search(query, limit, language=L) returns the results of
\* search(query, limit, language=None) whose language is L, in the same order, and
\* at most limit of them: for every string L.
C11_AsClaimed ==
    (SearchDone /\ last.language # None)
        => (/\ last.results = SelectSeq(Unfiltered, LAMBDA r : r.language = last.language[1])
            /\ Len(last.results) <= last.limit)

\* C11, amended: the same for every non-empty L (the empty string filters nothing).
C11_LanguageFilter ==
    (SearchDone /\ last.language # None /\ last.language # Some(""))
        => (/\ last.results = SelectSeq(Unfiltered, LAMBDA r : r.language = last.language[1])
            /\ \A k \in 1..Len(last.results) : last.results[k].language = last.language[1]
            /\ Len(last.results) <= last.limit)

\* A python search with limit 1 whose only hit is the markdown document returns
\* nothing although a python document matches.
C11_Witness ==
    /\ SearchDone /\ last.language = Some("python") /\ last.limit = 1
    /\ Len(last.hits) = 1 /\ Unfiltered[1].language = "markdown"
    /\ last.results = << >>
    /\ \E k \in 1..Len(docs[last.index_path]) :
          /\ docs[last.index_path][k].language = "python"
          /\ doc_matches(last.query, docs[last.index_path][k])

\* C12: a search that returns has loaded everything committed to its index, and
\* when its hits are fewer than limit every committed document that matches the
\* query (and the language asked for) is among its results; also through an
\* indexer object whose handle was opened before the commit.
C12_SearchSeesCommit ==
    SearchDone =>
        LET ds == docs[last.index_path] IN
        /\ inst[last.inst].searcher = ds
        /\ Len(last.hits) < last.limit =>
              \A k \in 1..Len(ds) :
                 (/\ doc_matches(last.query, ds[k])
                  /\ last.language \in {None, Some(""), Some(ds[k].language)})
                    => \E j \in 1..Len(last.results) :
                          /\ last.results[j].path = ds[k].path
                          /\ last.results[j].sha256 = ds[k].sha256

\* y searched, x committed a second matching document, y searches again on its
\* old handle and returns both.
C12_Witness ==
    /\ SearchDone /\ last.inst = "y" /\ last.stale
    /\ last.language = None /\ last.limit = 2
    /\ Len(last.results) = 2
    /\ last.results[1].path # last.results[2].path

CollectDone == last.op = "collect" /\ last.outcome = "ok"

\* C13: the files collect_directory returns are in strictly increasing order of
\* their POSIX relative paths, whatever the tree, the enumeration order and the
\* options, truncated or not.
C13_FilesSorted ==
    CollectDone =>
        \A j, k \in 1..Len(last.walk.files) :
            j < k => posix_rank(last.walk.files[j].path) < posix_rank(last.walk.files[k].path)

\* Three files returned, enumerated as b.md, a.py, a/c.js.
C13_Witness ==
    /\ CollectDone /\ Len(last.walk.files) = 3
    /\ order[last.root] = <<"b.md", "a.py", "a/c.js">>
    /\ paths_of(last.walk.files) = <<"a.py", "a/c.js", "b.md">>

\* What the same walk returns when it has no byte budget.
Eligible ==
    collect_directory(fs[last.root], order[last.root], gitignore[last.root],
                      [last.opts EXCEPT !.max_total_bytes = None]).files

C14_NegativeBudget ==
    /\ CollectDone /\ last.opts.max_total_bytes = Some(-1)
    /\ Eligible = << >> /\ ~last.walk.truncated /\ last.walk.warnings = << >>

C15_TotalBytes ==
    CollectDone =>
        /\ last.walk.total_bytes = sum_sizes(last.walk.files)
        /\ \A k \in 1..Len(last.walk.files) :
              last.walk.files[k].size = st_size(fs[last.root][last.walk.files[k].path])

\* One file returned next to a file over the cap and one whose stat() fails.
C15_Witness ==
    /\ CollectDone /\ Len(last.walk.files) = 1 /\ last.walk.total_bytes = 1
    /\ Len(last.walk.warnings) = 2
    /\ last.opts.max_file_bytes = Some(1)

\* C16, as claimed: with a non-null extensions list every returned file has a
\* suffix of the list (compared as the walker compares: lower case, leading dot),
\* the empty list included.
C16_ExtensionAllowList ==
    (CollectDone /\ last.opts.extensions # None)
        => \A k \in 1..Len(last.walk.files) :
              path_suffix(last.walk.files[k].path)
                  \in {normalize_ext(e) : e \in last.opts.extensions[1]}

\* The walk of the last call with respect_gitignore the other way round.
Flipped ==
    collect_directory(fs[last.root], order[last.root], gitignore[last.root],
                      [last.opts EXCEPT !.respect_gitignore = ~@])
Respecting == IF last.opts.respect_gitignore THEN last.walk ELSE Flipped
NotRespecting == IF last.opts.respect_gitignore THEN Flipped ELSE last.walk

\* A pattern of the root's .gitignore matches p or a directory above it.
GitignoreMatches(p) ==
    LET spec == load_gitignore(gitignore[last.root])
    IN  /\ spec_applies(spec)
        /\ \/ match_file(spec, p)
           \/ \E k \in 1..Len(path_dirs(p)) : match_file(spec, path_dirs(p)[k].rel)

\* p is a readable text file that no filter other than .gitignore and no byte
\* budget keeps out of the walk of the last call.
PassesOtherFilters(p) ==
    LET file == fs[last.root][p]
        f == walk_filters(None, last.opts)
    IN  /\ file # Absent /\ ~stat_fails(file) /\ ~open_fails(file) /\ ~is_binary(file)
        /\ ~under_skipped_dir(p, f)
        /\ ~should_skip_file(p, path_name(p), f)
        /\ last.opts.max_file_bytes # None => st_size(file) <= last.opts.max_file_bytes[1]
        /\ last.opts.max_total_bytes = None

\* C17: a file that a pattern of the root's .gitignore matches and that passes
\* every other filter is left out with respect_gitignore=True and returned with
\* respect_gitignore=False, the tree and the other options being the same.
C17_GitignorePrecedence ==
    (CollectDone /\ Flipped.raised = "")
        => \A p \in WalkPaths :
              (GitignoreMatches(p) /\ PassesOtherFilters(p))
                  => (/\ \A k \in 1..Len(Respecting.files) : Respecting.files[k].path # p
                      /\ \E k \in 1..Len(NotRespecting.files) : NotRespecting.files[k].path = p)

\* .gitignore holds *.md; the walk that respects it returns a.py and a/c.js, the
\* other walk returns b.md as well.
C17_Witness ==
    /\ CollectDone /\ last.opts = WalkOptionsDefault
    /\ gitignore[last.root] = Some({"*.md"})
    /\ paths_of(last.walk.files) = <<"a.py", "a/c.js">>
    /\ paths_of(Flipped.files) = <<"a.py", "a/c.js", "b.md">>

\* C18, as claimed: collect_directory raises only when binary_policy is "error"
\* and the tree holds a binary file; a file whose stat() or read fails is left out
\* with one warning and the walk goes on.
C18_OnlyBinaryRaises ==
    (last.op = "collect")
        => (/\ last.outcome # "ok"
                 => (/\ last.opts.binary_policy = "error"
                     /\ \E p \in WalkPaths : is_binary(fs[last.root][p]))
            /\ last.outcome = "ok"
                 => \A p \in WalkPaths :
                       (stat_fails(fs[last.root][p]) \/ open_fails(fs[last.root][p]))
                         => (/\ \A k \in 1..Len(last.walk.files) : last.walk.files[k].path # p
                             /\ Cardinality({k \in 1..Len(last.walk.warnings) :
                                                last.walk.warnings[k].path = p}) <= 1))

\* C19, as claimed: the combined result of build_context_from_sources has
\* total_bytes equal to the sizes of all the files it holds added up, those of
\* FILE sources included.
C19_ContextTotalBytes ==
    (last.op = "context" /\ last.outcome = "ok")
        => last.walk.total_bytes = sum_sizes(last.walk.files)

\* C20: a completed index_directory call has added its documents, then committed
\* the writer once (also with no document added), then saved the metadata once;
\* until that commit the engine's committed documents are those it had when the
\* call took the writer (or none, once a clear() has removed the index), and a
\* search served meanwhile reads only those. A call whose commit raises, the index
\* having been removed under it, commits nothing and saves nothing.
C20_SingleCommit ==
    /\ IndexDone =>
          last.log = [k \in 1..last.indexed_count |-> "add"] \o <<"commit", "save">>
    /\ \A i \in Insts :
          call[i].pc = "loop" =>
              /\ docs[inst[i].index_path] =
                    IF dirExists[inst[i].index_path] THEN call[i].base ELSE << >>
              /\ (SearchDone /\ last.index_path = inst[i].index_path)
                     => inst[last.inst].searcher = call[i].base
    /\ (last.op = "index" /\ last.outcome = "EngineError")
          => (/\ call[last.inst].pc = "idle" /\ ~dirExists[last.index_path]
              /\ docs[last.index_path] = << >> /\ meta[last.index_path] = MetaAbsent)

C20_Witness ==
    /\ IndexDone /\ last.indexed_count = 2
    /\ last.log = <<"add", "add", "commit", "save">>
    /\ Len(docs[last.index_path]) = 3

\* The entries of the metadata file as get_indexed_paths() and the loop read them.
entries(m) == load_metadata(m, "").files
added_paths(before, after) == {after[k].path : k \in (Len(before) + 1)..Len(after)}

\* C21: a completed non-forced index_directory leaves the metadata entry (sha256
\* and indexed_at) of every path it did not index as it was, skipped files and
\* paths absent from the walk alike, and adds no document for a walked file whose
\* stored hash equals its current one; the paths of the metadata shrink only in
\* clear() and in a forced rebuild.
C21_SkippedUntouched ==
    [][LET ip == last'.index_path
           before == entries(meta[ip])
           after == entries(meta'[ip])
           added == added_paths(docs[ip], docs'[ip])
       IN  /\ (last'.op = "index" /\ last'.outcome = "ok" /\ ~last'.force) =>
                 /\ IsPrefix(docs[ip], docs'[ip])
                 /\ \A p \in DOMAIN before \ added :
                        p \in DOMAIN after /\ after[p] = before[p]
                 /\ \A p \in seq_range(last'.walked) :
                        (/\ p \in DOMAIN before
                         /\ before[p].sha256 = sha256_hex(CurrentText(last'.root, p)))
                            => p \notin added
           /\ (\A q \in IndexPaths : DOMAIN entries(meta[q]) \subseteq DOMAIN entries(meta'[q]))
                 \/ last'.op = "clear"
                 \/ (last'.op = "index" /\ last'.force)]_vars

\* A non-forced call that skipped a.py, whose entry is older than the call, and
\* indexed b.md, a.py's entry being kept.
C21_Witness ==
    /\ IndexDone /\ ~last.force
    /\ last.skipped_count = 1 /\ last.indexed_count = 1
    /\ clock = 1
    /\ DOMAIN entries(meta[last.index_path]) = {"a.py", "b.md"}
    /\ entries(meta[last.index_path])["a.py"].indexed_at = 0
    /\ entries(meta[last.index_path])["b.md"].indexed_at = 1

\* C22: every entry path -> sha256 of the persisted metadata has a committed
\* document of its index with that path and that sha256.
C22_MetadataBackedByIndex ==
    \A ip \in IndexPaths :
        \A p \in DOMAIN entries(meta[ip]) :
            \E k \in 1..Len(docs[ip]) :
                /\ docs[ip][k].path = p
                /\ docs[ip][k].sha256 = entries(meta[ip])[p].sha256

\* A non-forced call that skipped b.md and indexed the rewritten a.py: two
\* entries, three documents, the older document of a.py backing no entry.
C22_Witness ==
    /\ IndexDone /\ ~last.force /\ last.skipped_count = 1 /\ last.indexed_count = 1
    /\ DOMAIN entries(meta[last.index_path]) = {"a.py", "b.md"}
    /\ Len(docs[last.index_path]) = 3
    /\ \E k \in 1..3 :
          /\ docs[last.index_path][k].path = "a.py"
          /\ docs[last.index_path][k].sha256 # entries(meta[last.index_path])["a.py"].sha256

RECURSIVE sum_on_disk(_, _)
sum_on_disk(r, paths) ==
    IF paths = << >> THEN 0 ELSE st_size(fs[r][Head(paths)]) + sum_on_disk(r, Tail(paths))

\* C23: a completed index_directory reports indexed_count + skipped_count equal
\* to the number of files its walk returned, and total_bytes equal to the sizes of
\* those files together, skipped ones included.
C23_CountsCoverWalk ==
    IndexDone =>
        /\ last.indexed_count + last.skipped_count = Len(last.walked)
        /\ last.total_bytes = sum_on_disk(last.root, last.walked)

\* A call that skipped one file and indexed the other, reporting the bytes of both.
C23_Witness ==
    /\ IndexDone /\ ~last.force
    /\ last.walked = <<"a.py", "b.md">>
    /\ last.skipped_count = 1 /\ last.indexed_count = 1
    /\ last.total_bytes = 3

\* Both calls of SpecRace have ended; what they left; what the calls leave when
\* run one after the other from the empty store, and what one call alone leaves.
RaceOver == \A i \in Insts : inst[i].handle /\ call[i].pc = "idle"
Left(st) ==
    [docs |-> st.docs[get_index_path(RootA)], meta |-> st.meta[get_index_path(RootA)]]
EmptyStore ==
    [dir |-> [ip \in IndexPaths |-> FALSE], docs |-> [ip \in IndexPaths |-> << >>],
     meta |-> [ip \in IndexPaths |-> MetaAbsent]]
alone(i) == index_directory_on(EmptyStore, get_index_path(RootA), RootA, RaceOpts(i), <<0, 0>>)
serial(i, j) == index_directory_on(alone(i), get_index_path(RootA), RootA, RaceOpts(j), <<0, 0>>)

C25_AsClaimed ==
    \A ip \in IndexPaths :
        \A a, b \in 1..Len(docs[ip]) :
            docs[ip][a].path # docs[ip][b].path => docs[ip][a].doc_id # docs[ip][b].doc_id

\* C25, amended: the documents one completed index_directory call adds are
\* numbered 1, 2, ... in the order added and have distinct paths, so doc_id tells
\* documents apart within one call (and within the whole index right after a
\* forced rebuild); the numbering starts again with every call.
C25_DocIdPerCall ==
    [][(last'.op = "index" /\ last'.outcome = "ok") =>
          LET ip == last'.index_path
              base == IF last'.force THEN << >> ELSE docs[ip]
              n == Len(docs'[ip]) - Len(base)
          IN  /\ IsPrefix(base, docs'[ip])
              /\ n = last'.indexed_count
              /\ \A k \in 1..n : docs'[ip][Len(base) + k].doc_id = k
              /\ \A j, k \in 1..n :
                     j # k => docs'[ip][Len(base) + j].path # docs'[ip][Len(base) + k].path]_vars

\* An incremental call indexed only the new b.md, as doc_id 1 like a.py before it.
C25_Witness ==
    /\ IndexDone /\ ~last.force /\ last.indexed_count = 1 /\ last.skipped_count = 1
    /\ Len(docs[last.index_path]) = 2
    /\ docs[last.index_path][1].path = "a.py" /\ docs[last.index_path][2].path = "b.md"
    /\ docs[last.index_path][1].doc_id = 1 /\ docs[last.index_path][2].doc_id = 1

\* C26, as claimed: filter_files_by_search returns only entries of its input
\* files, at most limit of them, in the order of the search results, and each
\* input entry at most once.
C26_FilterSound ==
    (last.op = "filter" /\ last.outcome = "ok") =>
        /\ \A k \in 1..Len(last.filtered) :
               \E j \in 1..Len(last.walk.files) : last.filtered[k] = last.walk.files[j]
        /\ Len(last.filtered) <= last.limit
        /\ paths_of(last.filtered)
              = paths_of(SelectSeq(last.results,
                                   LAMBDA res : res.path \in seq_range(paths_of(last.walk.files))))
        /\ \A j, k \in 1..Len(last.filtered) : j # k => last.filtered[j] # last.filtered[k]

\* C27, as claimed: for a fixed tree and fixed options the files collect_directory
\* returns, its truncated flag and its total_bytes are the same for every order in
\* which the filesystem enumerates the entries of a directory.
C27_OrderIndependent ==
    CollectDone =>
        \A o \in WalkOrders :
            LET other == collect_directory(fs[last.root], o, gitignore[last.root], last.opts)
            IN  other.raised = "" =>
                    /\ seq_range(other.files) = seq_range(last.walk.files)
                    /\ other.truncated = last.walk.truncated
                    /\ other.total_bytes = last.walk.total_bytes

LimitWarning == [kind |-> "Total byte limit reached", path |-> ""]
\* The tree without the files enumerated from position t of the order on.
cut_tree(tree, o, t) ==
    [p \in DOMAIN tree |-> IF \E k \in t..Len(o) : o[k] = p THEN Absent ELSE tree[p]]

\* C28: a walk is truncated by one file that would push total_bytes over
\* max_total_bytes: what the walk returns is what the files enumerated before
\* that file give, whatever comes after it (later files that would fit, later
\* directories), followed by exactly one 'Total byte limit reached' warning; a
\* walk that is not truncated has no such warning; a file over max_file_bytes
\* gets its own warning, is not returned and is never the file that truncates.
C28_BudgetStopsWalk ==
    CollectDone =>
        LET w == last.walk
            tree == fs[last.root]
            o == order[last.root]
            free == [last.opts EXCEPT !.max_total_bytes = None]
            cap == last.opts.max_file_bytes
        IN  /\ Cardinality({k \in 1..Len(w.warnings) : w.warnings[k] = LimitWarning})
                  = IF w.truncated THEN 1 ELSE 0
            /\ w.truncated =>
                  \E t \in 1..Len(o) :
                      LET before == collect_directory(cut_tree(tree, o, t), o,
                                                      gitignore[last.root], free)
                      IN  /\ w.files = before.files
                          /\ w.total_bytes = before.total_bytes
                          /\ w.warnings = Append(before.warnings, LimitWarning)
                          /\ tree[o[t]] # Absent /\ ~stat_fails(tree[o[t]])
                          /\ before.total_bytes + st_size(tree[o[t]]) > last.opts.max_total_bytes[1]
                          /\ cap # None => st_size(tree[o[t]]) <= cap[1]
            /\ ~w.truncated =>
                  w.files = collect_directory(tree, o, gitignore[last.root], free).files
            /\ \A k \in 1..Len(w.warnings) :
                  w.warnings[k].kind = "Skipping (size)" =>
                      /\ cap # None /\ st_size(tree[w.warnings[k].path]) > cap[1]
                      /\ w.warnings[k].path \notin seq_range(paths_of(w.files))

\* b.md, enumerated first, overflows a budget of one byte; a.py, which would fit,
\* and a/c.js in the directory after it are not returned.
C28_Witness ==
    /\ CollectDone /\ last.opts = OptBudgetOne
    /\ order[last.root][1] = "b.md"
    /\ fs[last.root]["b.md"] = TextHi
    /\ fs[last.root]["a.py"] = TextH /\ fs[last.root]["a/c.js"] = TextH
    /\ gitignore[last.root] = None
    /\ last.walk.truncated /\ last.walk.files = << >>
    /\ last.walk.warnings = <<LimitWarning>>

\* C29: no file collect_directory returns lies under a directory named in
\* DEFAULT_EXCLUDE_DIRS, under a hidden directory unless include_hidden, or under
\* a directory the root .gitignore matches when respect_gitignore, whatever the
\* include globs and the extension allow-list.
C29_PrunedDirsStayOut ==
    CollectDone =>
        \A k \in 1..Len(last.walk.files) :
            LET dirs == path_dirs(last.walk.files[k].path)
                gi == load_gitignore(gitignore[last.root])
            IN  \A j \in 1..Len(dirs) :
                    /\ dirs[j].name \notin DEFAULT_EXCLUDE_DIRS
                    /\ ~last.opts.include_hidden => ~starts_with_dot(dirs[j].name)
                    /\ (last.opts.respect_gitignore /\ spec_applies(gi))
                           => ~match_file(gi, dirs[j].rel)

\* Every directory holds a Python file, .gitignore names a/, and the include glob
\* *.py matches the files of node_modules and .hid: only a.py is returned.
C29_Witness ==
    /\ CollectDone /\ last.opts = OptIncludePy
    /\ \A p \in DirPaths : fs[last.root][p] = TextH
    /\ gitignore[last.root] = Some({"a/"})
    /\ paths_of(last.walk.files) = <<"a.py">>

TvDone == last.op \in {"tv.search", "tv.ensure_index"}

\* C30: the indexer that serves a tv call, and the one left in the module cache,
\* has the resolved root the call asked for (and that root's index directory); a
\* tv.search makes a new indexer exactly when nothing is cached or the cached one
\* is for another resolved root, and tv.ensure_index always puts a new one in
\* the cache, with no handle opened, before it goes on.
C30_TvCacheKeyedOnRoot ==
    [][TvDone' =>
          LET want == resolve(last'.requested)
          IN  /\ last'.root = want /\ last'.index_path = get_index_path(want)
              /\ tv'.cached /\ tv'.root = want
              /\ inst'[TvSlot].root = want
              /\ inst'[TvSlot].index_path = get_index_path(want)
              /\ last'.held = (IF tv.cached THEN tv.root ELSE "")
              /\ last'.op = "tv.search" =>
                     /\ last'.fresh <=> (~tv.cached \/ tv.root # want)
                     /\ ~last'.fresh => inst'[TvSlot].root = inst[TvSlot].root
              /\ last'.op = "tv.ensure_index" =>
                     /\ last'.fresh
                     /\ ~inst'[TvSlot].handle /\ inst'[TvSlot].searcher = << >>
              /\ last'.fresh => ~last'.stale
              /\ tv'.search_root = tv.search_root]_vars

\* Both roots are indexed and the cache holds the indexer of /w/A; the search
\* that names /w/B is served by a new indexer and finds the file of /w/B.
C30_Witness ==
    /\ last.op = "tv.search" /\ last.requested = RootB /\ last.fresh
    /\ last.held = RootA
    /\ last.outcome = "ok" /\ last.results # << >>
    /\ last.index_path = get_index_path(RootB)
    /\ docs[get_index_path(RootA)] # << >>
    /\ tv.root = RootB /\ inst[TvSlot].root = RootB

====
